---- MODULE Spec2Model ----
(***************************************************************************)
(* TravelBot: the expiring store (src/util/ttlMap.js), the message         *)
(* deduplicator built on it (src/util/dedupe.js) and the per-user          *)
(* serialisation and cooldown of inbound messages (src/index.js).          *)
(*                                                                         *)
(* Time is the value of Date.now() in milliseconds.  Node's timer table    *)
(* is part of the state: a setTimeout handle is the record                 *)
(* [key, due]; it is pending until it fires or is cleared.                 *)
(***************************************************************************)
EXTENDS Integers, Sequences, FiniteSets, TLC

\* ------------------------------------------------------------------------
\* Bounds of the model
\* ------------------------------------------------------------------------
\* number of clock steps explored in the store and deduplicator specifications
MaxTicks == 2
\* number of message ids offered to a deduplicator beyond its maxEntries
MaxOver == 1
\* number of message ids that are offered again after their first use
MaxReuse == 1
\* number of 'message' events accepted by handleMessage
MaxEvents == 3
\* number of distinct message ids carried by 'message' events
MaxMessageIds == 1
\* number of getTravelReply calls
MaxSubmissions == 4
\* number of SIGTERM / SIGINT signals delivered to the process
MaxSignals == 2
\* number of 'message' events accepted while the process is followed to its exit
MaxShutdownEvents == 1
\* number of message ids marked while the eviction order is followed
MaxEvictIds == 3
\* number of 'message' events accepted while the cooldown store is followed
MaxCooldownEvents == 2
MaxReconnects == 6
MaxReconnecting == 2

\* ------------------------------------------------------------------------
\* Program constants
\* ------------------------------------------------------------------------
\* ttlMap.js:13  setInterval(() => this.cleanup(), 5 * 60 * 1000)
CLEANUP_INTERVAL_MS == 300000
\* dedupe.js:10
DEDUPE_TTL == 600000
\* dedupe.js:13
MAX_ENTRIES == 10000
\* index.js:35
USER_COOLDOWN_MS == 2000
\* index.js:36
USER_MEMORY_TTL == 1800000
\* index.js:51
USER_REGISTRY_TTL == 604800000

\* Date.now() when the process starts (any positive value)
StartTime == 1000000
\* clock granularity of the store / deduplicator specifications
StoreStep == 150000
\* clock granularity of the message pipeline specification: one cooldown, so
\* that a message arrives either inside the cooldown of a reply or after it
PipelineStep == USER_COOLDOWN_MS
\* a cooldown store that keeps a completion for one cooldown only
USER_COOLDOWN_TTL_OneCooldown == USER_COOLDOWN_MS
\* index.js:54  the TTL of a userCooldowns entry
USER_COOLDOWN_TTL == USER_COOLDOWN_MS * 2
\* the pipeline clock is followed for the lifetime of one cooldown entry
CooldownHorizon == USER_COOLDOWN_TTL

Undefined == "undefined"

VARIABLES
  now,            \* Date.now()
  store,          \* a TTLMap instance driven directly by its callers
  written,        \* per key: the last set() made by a caller of `store`
  deduplicator,   \* a MessageDeduplicator instance
  marks,          \* per message id: Date.now() of its last markSeen, 0 if none
  evicted,        \* ids removed by evictOldest or destroy since their last markSeen
  inflightRequests, \* index.js:57  userId -> the promise registered for it
  tasks,          \* one record per accepted event: its processMessage call
  userCooldowns,  \* index.js:54  userId -> lastReplyAt
  userMemory,     \* index.js:48  userId -> userContext object
  userRegistry,   \* index.js:51  userId -> registry data
  contexts,       \* the userContext objects: messageCount of each
  AI_CONCURRENCY, \* gemini.js  the module constant read from the environment
  queue,          \* gemini.js  the PQueue of getTravelReply tasks
  aiTasks,        \* one record per getTravelReply call: its queued task
  startOrder,     \* the getTravelReply tasks in the order they were started
  mainPc,         \* index.js:825  where main() is
  client,         \* index.js:44   null or the WhatsApp client
  reconnectTimeout, \* index.js:352  null, or the handle of the reconnect timer
  reconnectAttempts, \* index.js:351
  reconnectTimers, \* the pending timers set by scheduleReconnect: their delays
  reconnecting,   \* the reconnect callbacks that await client.initialize()
  reconnectDelays, \* the delays scheduled since reconnectAttempts was last 0
  shutdowns,      \* the shutdown() calls that await client.destroy()
  destroyCalls,   \* per store: the number of destroy() calls made on it
  exitCode        \* "none" while the process runs, else the code of process.exit

vars == <<now, store, written, deduplicator, marks, evicted, inflightRequests,
          tasks, userCooldowns, userMemory, userRegistry, contexts,
          AI_CONCURRENCY, queue, aiTasks, startOrder, mainPc, client,
          reconnectTimeout, reconnectAttempts, reconnectTimers, reconnecting,
          reconnectDelays, shutdowns, destroyCalls, exitCode>>

storeVars == <<store, written>>
dedupeVars == <<deduplicator, marks, evicted>>
pipelineVars == <<inflightRequests, tasks, userCooldowns, userMemory, userRegistry,
                  contexts>>
aiVars == <<AI_CONCURRENCY, queue, aiTasks, startOrder>>
reconnectVars == <<reconnectAttempts, reconnectTimers, reconnecting, reconnectDelays>>
lifeVars == <<mainPc, client, reconnectTimeout, reconnectVars, shutdowns, destroyCalls,
              exitCode>>

\* ------------------------------------------------------------------------
\* JavaScript Map (insertion ordered) as a sequence of entries
\* ------------------------------------------------------------------------
MapHas(m, k) == \E i \in 1..Len(m) : m[i].key = k

MapIndex(m, k) == CHOOSE i \in 1..Len(m) : m[i].key = k

MapGet(m, k) == m[MapIndex(m, k)]

\* a set() that moves an existing key to the newest position
MapPutMoveToEnd(m, e) ==
  Append(SelectSeq(m, LAMBDA x : x.key # e.key), e)

\* Map.prototype.set: an existing key keeps its position
MapPut(m, e) ==
  IF MapHas(m, e.key) THEN [m EXCEPT ![MapIndex(m, e.key)] = e]
  ELSE Append(m, e)

MapRemove(m, k) == SelectSeq(m, LAMBDA e : e.key # k)

MapKeys(m) == {m[i].key : i \in 1..Len(m)}

KeySeq(m) == [i \in 1..Len(m) |-> m[i].key]

\* this.timers : key -> timer handle
NoTimers == [k \in {} |-> 0]

TimersPut(tm, k, due) ==
  [x \in (DOMAIN tm) \cup {k} |-> IF x = k THEN due ELSE tm[x]]

TimersRemove(tm, k) == [x \in (DOMAIN tm) \ {k} |-> tm[x]]

Handle(k, due) == [key |-> k, due |-> due]

\* ------------------------------------------------------------------------
\* TTLMap (src/util/ttlMap.js)
\* ------------------------------------------------------------------------
\* constructor: empty map, no timers, the sweep interval armed
NewTTLMap(defaultTTL, t) ==
  [map |-> <<>>, timers |-> NoTimers, pending |-> {},
   defaultTTL |-> defaultTTL, sweep |-> t + CLEANUP_INTERVAL_MS]

\* clearTimeout(this.timers.get(key)) when this.timers.has(key)
ClearKeyTimer(s, key) ==
  IF key \in DOMAIN s.timers
  THEN s.pending \ {Handle(key, s.timers[key])}
  ELSE s.pending

\* set() that forgets to clear the timer of the entry it replaces
TTLSetKeepOldTimer(s, key, value, ttl, t) ==
  [s EXCEPT !.map = MapPut(s.map, [key |-> key, value |-> value, expiresAt |-> t + ttl]),
            !.pending = s.pending \cup {Handle(key, t + ttl)},
            !.timers = TimersPut(s.timers, key, t + ttl)]

TTLSet(s, key, value, ttl, t) ==
  [s EXCEPT !.map = MapPut(s.map, [key |-> key, value |-> value, expiresAt |-> t + ttl]),
            !.pending = ClearKeyTimer(s, key) \cup {Handle(key, t + ttl)},
            !.timers = TimersPut(s.timers, key, t + ttl)]

\* delete() that cancels the timer and leaves the entry in the map
TTLDeleteLeavesEntry(s, key) ==
  [s EXCEPT !.pending = ClearKeyTimer(s, key),
            !.timers = TimersRemove(s.timers, key)]

TTLDelete(s, key) ==
  [s EXCEPT !.pending = ClearKeyTimer(s, key),
            !.timers = TimersRemove(s.timers, key),
            !.map = MapRemove(s.map, key)]

\* get() that returns whatever is stored without looking at the deadline
TTLGetNoExpiry(s, key, t) ==
  IF ~MapHas(s.map, key) THEN [found |-> FALSE, value |-> Undefined, store |-> s]
  ELSE [found |-> TRUE, value |-> MapGet(s.map, key).value, store |-> s]

\* get() that empties the whole store when it finds a stale entry
TTLGetDropsAll(s, key, t) ==
  IF ~MapHas(s.map, key) THEN [found |-> FALSE, value |-> Undefined, store |-> s]
  ELSE IF t > MapGet(s.map, key).expiresAt
       THEN [found |-> FALSE, value |-> Undefined,
             store |-> [s EXCEPT !.map = <<>>, !.timers = NoTimers, !.pending = {}]]
       ELSE [found |-> TRUE, value |-> MapGet(s.map, key).value, store |-> s]

\* get(): the value returned (found = it is not undefined) and the store
\* it leaves
TTLGet(s, key, t) ==
  IF ~MapHas(s.map, key) THEN [found |-> FALSE, value |-> Undefined, store |-> s]
  ELSE IF t > MapGet(s.map, key).expiresAt
       THEN [found |-> FALSE, value |-> Undefined, store |-> TTLDelete(s, key)]
       ELSE [found |-> TRUE, value |-> MapGet(s.map, key).value, store |-> s]

\* has() that answers from the map alone, without looking at the deadline
TTLHasNoExpiry(s, key, t) ==
  IF ~MapHas(s.map, key) THEN [value |-> FALSE, store |-> s]
  ELSE [value |-> TRUE, store |-> s]

\* has() that moves the entry it finds to the newest position of the map
TTLHasTouch(s, key, t) ==
  IF ~MapHas(s.map, key) THEN [value |-> FALSE, store |-> s]
  ELSE IF t > MapGet(s.map, key).expiresAt
       THEN [value |-> FALSE, store |-> TTLDelete(s, key)]
       ELSE [value |-> TRUE,
             store |-> [s EXCEPT !.map = Append(MapRemove(s.map, key),
                                                MapGet(s.map, key))]]

TTLHas(s, key, t) ==
  IF ~MapHas(s.map, key) THEN [value |-> FALSE, store |-> s]
  ELSE IF t > MapGet(s.map, key).expiresAt
       THEN [value |-> FALSE, store |-> TTLDelete(s, key)]
       ELSE [value |-> TRUE, store |-> s]

\* update(key, updater, ttl): updater is the caller's function
ApplyUpdater(updater, current) ==
  CASE updater = "init" -> IF current = Undefined THEN "v1" ELSE current
    [] updater = "flip" -> IF current = "v1" THEN "v2" ELSE "v1"

\* update() that hands the stored value to the updater without the
\* staleness check of get()
TTLUpdateStale(s, key, updater, ttl, t) ==
  LET r == TTLGetNoExpiry(s, key, t)
  IN TTLSet(r.store, key, ApplyUpdater(updater, r.value), ttl, t)

TTLUpdate(s, key, updater, ttl, t) ==
  LET r == TTLGet(s, key, t)
  IN TTLSet(r.store, key, ApplyUpdater(updater, r.value), ttl, t)

\* the default parameter `ttl = this.defaultTTL` of set and update; NoTTL
\* stands for a call without the argument
NoTTL == -1
DefaultTTL(s, ttl) == IF ttl = NoTTL THEN s.defaultTTL ELSE ttl

TTLSize(s) == Len(s.map)

\* cleanup(): for (const [key, entry] of this.map) delete the stale ones
RECURSIVE CleanupLoop(_, _, _)
CleanupLoop(s, entries, t) ==
  IF entries = <<>> THEN s
  ELSE CleanupLoop(IF t > Head(entries).expiresAt
                   THEN TTLDelete(s, Head(entries).key) ELSE s,
                   Tail(entries), t)

\* cleanup() that removes the expired entries and leaves their timers armed
TTLCleanupMapOnly(s, t) ==
  [s EXCEPT !.map = SelectSeq(s.map, LAMBDA e : ~(t > e.expiresAt))]

TTLCleanup(s, t) == CleanupLoop(s, s.map, t)

\* clear() that empties the map and leaves the timers armed
TTLClearMapOnly(s) == [s EXCEPT !.map = <<>>]

\* clear(): clearTimeout of every handle in this.timers, then both maps cleared
TTLClear(s) ==
  [s EXCEPT !.pending = s.pending \ {Handle(k, s.timers[k]) : k \in DOMAIN s.timers},
            !.timers = NoTimers,
            !.map = <<>>]

\* destroy(): clearInterval(this.cleanupInterval); this.clear()
SweepCleared == -1

TTLDestroy(s) == TTLClear([s EXCEPT !.sweep = SweepCleared])

\* a pending setTimeout callback of set() runs: () => this.delete(key)
TTLTimerFire(s, h) == TTLDelete([s EXCEPT !.pending = s.pending \ {h}], h.key)

\* the setInterval callback runs: () => this.cleanup()
TTLSweepFire(s, t) ==
  TTLCleanup([s EXCEPT !.sweep = s.sweep + CLEANUP_INTERVAL_MS], t)

\* ------------------------------------------------------------------------
\* MessageDeduplicator (src/util/dedupe.js)
\* ------------------------------------------------------------------------
\* a missing or empty message id (!messageId)
NoId == 0
MessageIds == 1..(10 + MaxOver)

NewMessageDeduplicator(ttl, maxEntries, t) ==
  [seen |-> NewTTLMap(ttl, t), maxEntries |-> maxEntries, ttl |-> ttl]

IsDuplicate(d, messageId, t) ==
  IF messageId = NoId THEN [value |-> FALSE, dedup |-> d]
  ELSE [value |-> TTLHas(d.seen, messageId, t).value,
        dedup |-> [d EXCEPT !.seen = TTLHas(d.seen, messageId, t).store]]

\* Math.floor(this.maxEntries * 0.1)
ToDelete(maxEntries) == maxEntries \div 10

\* evictOldest() that walks the store from its newest entry
RECURSIVE EvictLoopNewest(_, _, _, _)
EvictLoopNewest(s, entries, deleted, toDelete) ==
  IF entries = <<>> \/ deleted >= toDelete THEN s
  ELSE EvictLoopNewest(TTLDelete(s, entries[Len(entries)].key),
                       SubSeq(entries, 1, Len(entries) - 1), deleted + 1, toDelete)

\* for (const [key] of this.seen.map) { if (deleted >= toDelete) break; ... }
RECURSIVE EvictLoop(_, _, _, _)
EvictLoop(s, entries, deleted, toDelete) ==
  IF entries = <<>> \/ deleted >= toDelete THEN s
  ELSE EvictLoop(TTLDelete(s, Head(entries).key), Tail(entries), deleted + 1, toDelete)

EvictOldest(d) ==
  [d EXCEPT !.seen = EvictLoop(d.seen, d.seen.map, 0, ToDelete(d.maxEntries))]

\* markSeen() without its `if (!messageId) return`
MarkSeenAnyId(d, messageId, t) ==
  LET e == IF TTLSize(d.seen) >= d.maxEntries THEN EvictOldest(d) ELSE d
  IN [e EXCEPT !.seen = TTLSet(e.seen, messageId, TRUE, e.ttl, t)]

MarkSeen(d, messageId, t) ==
  IF messageId = NoId THEN d
  ELSE LET e == IF TTLSize(d.seen) >= d.maxEntries THEN EvictOldest(d) ELSE d
       IN [e EXCEPT !.seen = TTLSet(e.seen, messageId, TRUE, e.ttl, t)]

\* checkAndMark() that reports "new" without recording the id
CheckAndMarkNoMark(d, messageId, t) ==
  IF IsDuplicate(d, messageId, t).value
  THEN [value |-> TRUE, dedup |-> IsDuplicate(d, messageId, t).dedup]
  ELSE [value |-> FALSE, dedup |-> IsDuplicate(d, messageId, t).dedup]

CheckAndMark(d, messageId, t) ==
  IF IsDuplicate(d, messageId, t).value
  THEN [value |-> TRUE, dedup |-> IsDuplicate(d, messageId, t).dedup]
  ELSE [value |-> FALSE, dedup |-> MarkSeen(IsDuplicate(d, messageId, t).dedup, messageId, t)]

DedupSize(d) == TTLSize(d.seen)

\* destroy(): this.seen.destroy()
DestroyDeduplicator(d) == [d EXCEPT !.seen = TTLDestroy(d.seen)]

\* ------------------------------------------------------------------------
\* The bounded work queue of the provider calls (gemini.js: queue, built on
\* the p-queue package) and the task getTravelReply hands to it
\* ------------------------------------------------------------------------
\* process.env.AI_CONCURRENCY: unset, or a string of digits
EnvSettings == {"unset", "0", "1", "2"}

\* parseInt(s, 10)
ParseInt(s) ==
  CASE s = "0" -> [isNaN |-> FALSE, value |-> 0]
    [] s = "1" -> [isNaN |-> FALSE, value |-> 1]
    [] s = "2" -> [isNaN |-> FALSE, value |-> 2]
    [] OTHER   -> [isNaN |-> TRUE, value |-> 0]

\* the fallback of `parseInt(process.env.AI_CONCURRENCY, 10) || 3`
DEFAULT_AI_CONCURRENCY == 3

\* parseInt(process.env.AI_CONCURRENCY, 10) with the fallback left out
AiConcurrencyNoDefault(env) == ParseInt(env).value

\* const AI_CONCURRENCY = parseInt(process.env.AI_CONCURRENCY, 10) || 3
AiConcurrency(env) ==
  IF ParseInt(env).isNaN \/ ParseInt(env).value = 0
  THEN DEFAULT_AI_CONCURRENCY
  ELSE ParseInt(env).value

\* PQueue: `concurrency` slots, `pending` of them taken, and the jobs that
\* wait, highest priority first and in order of arrival within a priority
PQNew(concurrency) == [concurrency |-> concurrency, pending |-> 0, waiting |-> <<>>]

\* the position at which a job of the given priority is enqueued
PQPosition(waiting, priority) ==
  Cardinality({k \in 1..Len(waiting) : waiting[k].priority >= priority}) + 1

PQEnqueue(waiting, job) ==
  LET at == PQPosition(waiting, job.priority)
  IN SubSeq(waiting, 1, at - 1) \o <<job>> \o SubSeq(waiting, at, Len(waiting))

\* a:  [queue, aiTasks, startOrder]
\* the queue starts its first waiting job when a slot is free; the job's
\* function runs up to its first await, the call of chat.sendMessage
PQTryToStart(a) ==
  IF a.queue.pending < a.queue.concurrency /\ a.queue.waiting # <<>>
  THEN LET id == Head(a.queue.waiting).id
       IN [a EXCEPT !.queue.pending = @ + 1,
                    !.queue.waiting = Tail(@),
                    !.aiTasks[id].pc = "sendMessage",
                    !.startOrder = Append(@, id)]
  ELSE a

\* queue.add(fn, {priority})
PQAdd(a, id, priority) ==
  PQTryToStart([a EXCEPT !.queue.waiting =
                            PQEnqueue(@, [id |-> id, priority |-> priority])])

\* a job's promise settled: its slot is freed and the next job is started
PQNext(a) == PQTryToStart([a EXCEPT !.queue.pending = @ - 1])

\* a queue built with no concurrency option has a slot for every job
Unlimited == MaxSubmissions + 1
NewQueueUnlimited(concurrency) == PQNew(Unlimited)

\* const queue = new PQueue({ concurrency: AI_CONCURRENCY })
NewQueue(concurrency) == PQNew(concurrency)

\* queue.add with a priority that grows with every call
SubmitUrgent(a, id) == PQAdd(a, id, id)

\* getTravelReply: return queue.add(async () => {...})
Submit(a, id) == PQAdd(a, id, 0)

\* the state of the gemini module after import, before any getTravelReply
IdleQueue ==
  /\ AI_CONCURRENCY = AiConcurrency("unset")
  /\ queue = NewQueue(AI_CONCURRENCY)
  /\ aiTasks = <<>>
  /\ startOrder = <<>>

\* ------------------------------------------------------------------------
\* The process (src/index.js): main, the signal handlers and shutdown
\* ------------------------------------------------------------------------
StoreNames == {"userMemory", "userRegistry", "userCooldowns", "deduplicator"}

NoDestroyCalls == [n \in StoreNames |-> 0]

\* main() has created the client and client.initialize() has resolved; no
\* signal has arrived
ProcessUp ==
  /\ mainPc = "done"
  /\ client = "client"
  /\ reconnectTimeout = "null"
  /\ reconnectAttempts = 0
  /\ reconnectTimers = <<>>
  /\ reconnecting = 0
  /\ reconnectDelays = <<>>
  /\ shutdowns = 0
  /\ destroyCalls = NoDestroyCalls
  /\ exitCode = "none"

\* ------------------------------------------------------------------------
\* Specification SpecTTL: one TTLMap used through its public methods
\* ------------------------------------------------------------------------
Keys == {"a", "b"}
Values == {"v1", "v2"}
TTLs == {0, StoreStep, 2 * StoreStep}
Updaters == {"init", "flip"}

NoWrite == [set |-> FALSE, value |-> Undefined, at |-> 0, ttl |-> 0,
            over |-> FALSE, prevDeadline |-> 0]

\* the bookkeeping of a caller's set(K, v, T) at time t
NoteWrite(w, key, value, ttl, t) ==
  [w EXCEPT ![key] = [set |-> TRUE, value |-> value, at |-> t, ttl |-> ttl,
                      over |-> w[key].set /\ t < w[key].at + w[key].ttl,
                      prevDeadline |-> IF w[key].set /\ t < w[key].at + w[key].ttl
                                       THEN w[key].at + w[key].ttl ELSE 0]]


\* the module-level state of index.js when no message has been delivered
IdlePipeline ==
  /\ IdleQueue
  /\ ProcessUp
  /\ inflightRequests = NoTimers
  /\ tasks = <<>>
  /\ userCooldowns = NewTTLMap(USER_COOLDOWN_TTL, StartTime)
  /\ userMemory = NewTTLMap(USER_MEMORY_TTL, StartTime)
  /\ userRegistry = NewTTLMap(USER_REGISTRY_TTL, StartTime)
  /\ contexts = <<>>

InitTTL ==
  /\ now = StartTime
  /\ store = NewTTLMap(USER_MEMORY_TTL, StartTime)
  /\ written = [k \in Keys |-> NoWrite]
  /\ deduplicator = NewMessageDeduplicator(DEDUPE_TTL, MAX_ENTRIES, StartTime)
  /\ marks = [id \in MessageIds |-> 0]
  /\ evicted = {}
  /\ IdlePipeline

Live == store.sweep # SweepCleared

Set(key, value, ttl) ==
  /\ Live
  /\ store' = TTLSet(store, key, value, ttl, now)
  /\ written' = NoteWrite(written, key, value, ttl, now)
  /\ UNCHANGED <<lifeVars, aiVars, now, dedupeVars, pipelineVars>>

Get(key) ==
  /\ Live
  /\ store' = TTLGet(store, key, now).store
  /\ UNCHANGED <<lifeVars, aiVars, now, written, dedupeVars, pipelineVars>>

Has(key) ==
  /\ Live
  /\ store' = TTLHas(store, key, now).store
  /\ UNCHANGED <<lifeVars, aiVars, now, written, dedupeVars, pipelineVars>>

Delete(key) ==
  /\ Live
  /\ store' = TTLDelete(store, key)
  /\ written' = [written EXCEPT ![key] = NoWrite]
  /\ UNCHANGED <<lifeVars, aiVars, now, dedupeVars, pipelineVars>>

Update(key, updater, ttl) ==
  /\ Live
  /\ store' = TTLUpdate(store, key, updater, ttl, now)
  /\ written' = NoteWrite(written, key,
                          ApplyUpdater(updater, TTLGet(store, key, now).value), ttl, now)
  /\ UNCHANGED <<lifeVars, aiVars, now, dedupeVars, pipelineVars>>

Clear ==
  /\ Live
  /\ store.map # <<>>
  /\ store' = TTLClear(store)
  /\ written' = [k \in Keys |-> NoWrite]
  /\ UNCHANGED <<lifeVars, aiVars, now, dedupeVars, pipelineVars>>

Destroy ==
  /\ Live
  /\ store' = TTLDestroy(store)
  /\ written' = [k \in Keys |-> NoWrite]
  /\ UNCHANGED <<lifeVars, aiVars, now, dedupeVars, pipelineVars>>

TimerFire(h) ==
  /\ h \in store.pending
  /\ now >= h.due
  /\ store' = TTLTimerFire(store, h)
  /\ UNCHANGED <<lifeVars, aiVars, now, written, dedupeVars, pipelineVars>>

SweepFire ==
  /\ Live
  /\ now >= store.sweep
  /\ store' = TTLSweepFire(store, now)
  /\ UNCHANGED <<lifeVars, aiVars, now, written, dedupeVars, pipelineVars>>

TickStore ==
  /\ now + StoreStep <= StartTime + MaxTicks * StoreStep
  /\ now' = now + StoreStep
  /\ UNCHANGED <<lifeVars, aiVars, storeVars, dedupeVars, pipelineVars>>

NextTTL ==
  \/ \E k \in Keys, v \in Values, ttl \in TTLs : Set(k, v, ttl)
  \/ \E k \in Keys : Get(k)
  \/ \E k \in Keys : Has(k)
  \/ \E k \in Keys : Delete(k)
  \/ \E k \in Keys, u \in Updaters, ttl \in TTLs : Update(k, u, ttl)
  \/ Clear
  \/ Destroy
  \/ \E h \in store.pending : TimerFire(h)
  \/ SweepFire
  \/ TickStore

SpecTTL == InitTTL /\ [][NextTTL]_vars

\* ------------------------------------------------------------------------
\* C9: after set(K, v, T) at time t, get(K) is v and has(K) is true at
\* time t, and get(K) is not-found and has(K) is false at every time later
\* than t + T, whether or not the entry's timer or the sweep has run.
\* ------------------------------------------------------------------------
C9_AfterDeadline ==
  \A k \in Keys :
    (written[k].set /\ now > written[k].at + written[k].ttl) =>
      /\ TTLGet(store, k, now).value = Undefined
      /\ TTLHas(store, k, now).value = FALSE

C9_Immediately ==
  \A k \in Keys, v \in Values, ttl \in TTLs :
    Set(k, v, ttl) => /\ TTLGet(store', k, now').value = v
                      /\ TTLHas(store', k, now').value = TRUE

C9_SetThenGet == []C9_AfterDeadline /\ [][C9_Immediately]_vars

\* the deadline has passed and neither the timer nor the sweep has removed
\* the entry: the read alone hides it
C9_Witness ==
  \E k \in Keys :
    /\ written[k].set
    /\ now > written[k].at + written[k].ttl
    /\ MapHas(store.map, k)
    /\ Handle(k, written[k].at + written[k].ttl) \in store.pending
    /\ TTLGet(store, k, now).value = Undefined

DedupeConfigs == {<<StoreStep, 2>>, <<2 * StoreStep, 2>>, <<DEDUPE_TTL, 10>>}

InitDedupe ==
  /\ now = StartTime
  /\ \E c \in DedupeConfigs :
        deduplicator = NewMessageDeduplicator(c[1], c[2], StartTime)
  /\ marks = [id \in MessageIds |-> 0]
  /\ evicted = {}
  /\ store = NewTTLMap(USER_MEMORY_TTL, StartTime)
  /\ written = [k \in Keys |-> NoWrite]
  /\ IdlePipeline

\* message ids are opaque: a new id is the next unused number
UsedIds == {id \in MessageIds : marks[id] # 0}
FreshIds == {id \in MessageIds : /\ id = Cardinality(UsedIds) + 1
                                  /\ id <= deduplicator.maxEntries + MaxOver}
OfferedIds == {NoId} \cup FreshIds \cup {id \in UsedIds : id <= MaxReuse}

\* bookkeeping of a markSeen(id) that took the deduplicator from d to e
NoteMark(d, e, messageId, t) ==
  /\ marks' = IF messageId = NoId THEN marks ELSE [marks EXCEPT ![messageId] = t]
  /\ evicted' = (evicted \cup (MapKeys(d.seen.map) \ MapKeys(e.seen.map))) \ {messageId}

\* destroy() has not been called; index.js calls it only on its way to
\* process.exit
DedupLive == deduplicator.seen.sweep # SweepCleared

DoIsDuplicate(id) ==
  /\ DedupLive
  /\ deduplicator' = IsDuplicate(deduplicator, id, now).dedup
  /\ UNCHANGED <<lifeVars, aiVars, now, marks, evicted, storeVars, pipelineVars>>

DoMarkSeen(id) ==
  /\ DedupLive
  /\ deduplicator' = MarkSeen(deduplicator, id, now)
  /\ NoteMark(deduplicator, deduplicator', id, now)
  /\ UNCHANGED <<lifeVars, aiVars, now, storeVars, pipelineVars>>

DoCheckAndMark(id) ==
  /\ DedupLive
  /\ deduplicator' = CheckAndMark(deduplicator, id, now).dedup
  /\ IF CheckAndMark(deduplicator, id, now).value
     THEN UNCHANGED <<marks, evicted>>
     ELSE NoteMark(IsDuplicate(deduplicator, id, now).dedup, deduplicator', id, now)
  /\ UNCHANGED <<lifeVars, aiVars, now, storeVars, pipelineVars>>

DoDestroy ==
  /\ DedupLive
  /\ deduplicator' = DestroyDeduplicator(deduplicator)
  /\ marks' = [id \in MessageIds |-> 0]
  /\ evicted' = evicted \cup MapKeys(deduplicator.seen.map)
  /\ UNCHANGED <<lifeVars, aiVars, now, storeVars, pipelineVars>>

SeenTimerFire(h) ==
  /\ h \in deduplicator.seen.pending
  /\ now >= h.due
  /\ deduplicator' = [deduplicator EXCEPT !.seen = TTLTimerFire(deduplicator.seen, h)]
  /\ UNCHANGED <<lifeVars, aiVars, now, marks, evicted, storeVars, pipelineVars>>

SeenSweepFire ==
  /\ deduplicator.seen.sweep # SweepCleared
  /\ now >= deduplicator.seen.sweep
  /\ deduplicator' = [deduplicator EXCEPT !.seen = TTLSweepFire(deduplicator.seen, now)]
  /\ UNCHANGED <<lifeVars, aiVars, now, marks, evicted, storeVars, pipelineVars>>

TickDedupe ==
  /\ now + StoreStep <= StartTime + MaxTicks * StoreStep
  /\ now' = now + StoreStep
  /\ UNCHANGED <<lifeVars, aiVars, dedupeVars, storeVars, pipelineVars>>

NextDedupe ==
  \/ \E id \in OfferedIds : DoIsDuplicate(id)
  \/ \E id \in OfferedIds : DoMarkSeen(id)
  \/ \E id \in OfferedIds : DoCheckAndMark(id)
  \/ DoDestroy
  \/ \E h \in deduplicator.seen.pending : SeenTimerFire(h)
  \/ SeenSweepFire
  \/ TickDedupe

SpecDedupe == InitDedupe /\ [][NextDedupe]_vars

\* ------------------------------------------------------------------------
\* C5 (as stated): checkAndMark(id) is false on the first call, true on
\* every later call inside the TTL window of the marking whatever other ids
\* are marked in between, and false again once the window has elapsed.
\* ------------------------------------------------------------------------
C5_Original ==
  \A id \in MessageIds :
    /\ marks[id] = 0 => CheckAndMark(deduplicator, id, now).value = FALSE
    /\ (marks[id] # 0 /\ now < marks[id] + deduplicator.ttl)
          => CheckAndMark(deduplicator, id, now).value = TRUE
    /\ (marks[id] # 0 /\ now > marks[id] + deduplicator.ttl)
          => CheckAndMark(deduplicator, id, now).value = FALSE

\* C5 (amended): checkAndMark(id) is false on the first call, true on every
\* later call made before the TTL deadline of the marking as long as no
\* capacity eviction has removed the id in between, false for an id that
\* was evicted and not marked again, and false again after the deadline.
C5_CheckAndMarkWindow ==
  \A id \in MessageIds :
    /\ marks[id] = 0 => CheckAndMark(deduplicator, id, now).value = FALSE
    /\ (marks[id] # 0 /\ id \notin evicted /\ now < marks[id] + deduplicator.ttl)
          => CheckAndMark(deduplicator, id, now).value = TRUE
    /\ id \in evicted => CheckAndMark(deduplicator, id, now).value = FALSE
    /\ (marks[id] # 0 /\ now > marks[id] + deduplicator.ttl)
          => CheckAndMark(deduplicator, id, now).value = FALSE

\* an id marked earlier, another id marked after it, time has passed but
\* the window is open: the id is still reported as a duplicate
C5_Witness ==
  \E id, other \in MessageIds :
    /\ other # id
    /\ marks[id] # 0 /\ marks[other] > marks[id]
    /\ now < marks[id] + deduplicator.ttl
    /\ CheckAndMark(deduplicator, id, now).value = TRUE

\* ------------------------------------------------------------------------
\* C6: a checkAndMark(id) that returns true leaves the deduplicator's store
\* (keys, deadlines, order, timers) unchanged; one that returns false for a
\* non-empty id leaves the id recorded, so that an immediate second call
\* returns true.
\* ------------------------------------------------------------------------
C6_CheckAndMarkFrame ==
  \A id \in OfferedIds :
    LET r == CheckAndMark(deduplicator, id, now)
    IN IF r.value
       THEN r.dedup = deduplicator
       ELSE id # NoId =>
              /\ MapHas(r.dedup.seen.map, id)
              /\ IsDuplicate(r.dedup, id, now).value = TRUE
              /\ CheckAndMark(r.dedup, id, now).value = TRUE

\* an id that was marked is offered again while fresh: the call returns
\* true and changes nothing
C6_Witness ==
  \E id \in MessageIds :
    /\ marks[id] # 0
    /\ CheckAndMark(deduplicator, id, now).value = TRUE
    /\ CheckAndMark(deduplicator, id, now).dedup = deduplicator
    /\ DedupSize(deduplicator) >= 2

\* ------------------------------------------------------------------------
\* C7: for every positive maxEntries, size <= maxEntries after every
\* markSeen or checkAndMark.
\* ------------------------------------------------------------------------
C7_SizeBound == DedupSize(deduplicator) <= deduplicator.maxEntries

\* ------------------------------------------------------------------------
\* C8: markSeen(id) at size >= maxEntries removes exactly the
\* floor(maxEntries * 0.1) earliest-inserted entries; every other entry
\* stays as it was and the new id is present afterwards.
\* ------------------------------------------------------------------------
C8_Effect(d, e, id) ==
  LET keys == KeySeq(d.seen.map)
      n == d.maxEntries \div 10
      rest == SubSeq(keys, n + 1, Len(keys))
  IN (id # NoId /\ Len(keys) >= d.maxEntries) =>
       /\ KeySeq(e.seen.map) =
            IF \E i \in 1..Len(rest) : rest[i] = id THEN rest ELSE Append(rest, id)
       /\ \A i \in 1..Len(rest) :
            rest[i] # id => MapGet(e.seen.map, rest[i]) = MapGet(d.seen.map, rest[i])
       /\ MapHas(e.seen.map, id)

C8_EvictOldestTenth ==
  \A id \in OfferedIds :
    /\ C8_Effect(deduplicator, MarkSeen(deduplicator, id, now), id)
    /\ ~CheckAndMark(deduplicator, id, now).value
          => C8_Effect(IsDuplicate(deduplicator, id, now).dedup,
                       CheckAndMark(deduplicator, id, now).dedup, id)

\* maxEntries = 10 and ids 1..11 marked in order: id 1 is gone, 2..11 remain
C8_Witness ==
  /\ deduplicator.maxEntries = 10
  /\ KeySeq(deduplicator.seen.map) = [i \in 1..10 |-> i + 1]
  /\ evicted = {1}

\* ------------------------------------------------------------------------
\* Message pipeline (src/index.js): handleMessage and processMessage
\* ------------------------------------------------------------------------
\* A task is the processMessage call of one accepted event, together with
\* the promise that stands for it in inflightRequests:
\*   direct    handleMessage called processMessage itself and awaits it
\*   chainedOn the task whose promise this one is chained on with .then
\*             (0 for a direct task)
\*   wakeAt    when the pending sleep(waitTime) timer is due (0: none)
\*   ctx       the userContext object the call works on (0: none)
\* chainedOn, wakeAt and ctx are cleared once the call no longer uses them.
\*   pc        "chained"  waiting for the promise it is chained on
\*             "sleep"    awaiting sleep(waitTime)
\*             "handler"  awaiting handleTextMessage / handleLocationMessage
\*             "reply"    awaiting msg.reply(reply)
\*             "done"     processMessage returned
\*             "failed"   processMessage threw
\*             "skipped"  the promise rejected without processMessage running
Users == {"u1", "u2"}
GroupChat == "chat@g.us"
StatusBroadcast == "status@broadcast"
Senders == Users \cup {GroupChat, StatusBroadcast}

Running(task) == task.pc \in {"sleep", "handler", "reply"}
Returned(task) == task.pc \in {"done", "failed"}
Settled(task) == task.pc \in {"done", "failed", "skipped"}

\* the module-level objects processMessage works on
World == [tasks |-> tasks, inflightRequests |-> inflightRequests,
          userCooldowns |-> userCooldowns, userMemory |-> userMemory,
          userRegistry |-> userRegistry, contexts |-> contexts]

\* processMessage after the cooldown: index.js:454-496 up to the await of
\* the handler.  An existing userContext is the stored object itself, so
\* messageCount is incremented in the store.
ProcessBody(w, i, t) ==
  LET user == w.tasks[i].from
      mem == TTLGet(w.userMemory, user, t)
      reg == TTLHas(w.userRegistry, user, t)
      isFirstEverMessage == ~reg.value
      regStore == TTLGet(reg.store, user, t).store
  IN IF ~mem.found
     THEN [w EXCEPT !.userMemory = mem.store,
                    !.userRegistry = IF isFirstEverMessage
                                     THEN TTLSet(regStore, user, "registered",
                                                 regStore.defaultTTL, t)
                                     ELSE regStore,
                    !.contexts = Append(w.contexts, 1),
                    !.tasks[i].ctx = Len(w.contexts) + 1,
                    !.tasks[i].wakeAt = 0,
                    !.tasks[i].chainedOn = 0,
                    !.tasks[i].pc = "handler"]
     ELSE [w EXCEPT !.userMemory = mem.store,
                    !.userRegistry = regStore,
                    !.contexts[mem.value] = w.contexts[mem.value] + 1,
                    !.tasks[i].ctx = mem.value,
                    !.tasks[i].wakeAt = 0,
                    !.tasks[i].chainedOn = 0,
                    !.tasks[i].pc = "handler"]

\* a cooldown check that sleeps a full USER_COOLDOWN_MS whatever has elapsed
ProcessMessageFullWait(w, i, t) ==
  LET user == w.tasks[i].from
      last == TTLGet(w.userCooldowns, user, t)
      w1 == [w EXCEPT !.userCooldowns = last.store]
  IN IF last.found /\ last.value # 0 /\ t - last.value < USER_COOLDOWN_MS
     THEN [w1 EXCEPT !.tasks[i].pc = "sleep",
                     !.tasks[i].wakeAt = t + USER_COOLDOWN_MS]
     ELSE ProcessBody(w1, i, t)

\* processMessage from its first line: the cooldown check (index.js:440-452)
ProcessMessage(w, i, t) ==
  LET user == w.tasks[i].from
      last == TTLGet(w.userCooldowns, user, t)
      w1 == [w EXCEPT !.userCooldowns = last.store]
  IN IF last.found /\ last.value # 0 /\ t - last.value < USER_COOLDOWN_MS
     THEN [w1 EXCEPT !.tasks[i].pc = "sleep",
                     !.tasks[i].wakeAt = t + (USER_COOLDOWN_MS - (t - last.value))]
     ELSE ProcessBody(w1, i, t)

\* the tasks whose promise is currentPromise.then(...) of task i's promise
Successors(w, i) ==
  {j \in 1..Len(w.tasks) : w.tasks[j].pc = "chained" /\ w.tasks[j].chainedOn = i}

\* handleMessage that deletes the entry after `await promise` with no
\* `finally`: the entry stays when processMessage throws
RECURSIVE SettleDeleteOnSuccess(_, _, _, _)
SettleDeleteOnSuccess(w, i, fulfilled, t) ==
  LET w1 == IF w.tasks[i].direct /\ fulfilled
            THEN [w EXCEPT !.inflightRequests =
                              TimersRemove(w.inflightRequests, w.tasks[i].from)]
            ELSE w
      succ == Successors(w1, i)
  IN IF succ = {} THEN w1
     ELSE LET j == CHOOSE x \in succ : TRUE
          IN IF fulfilled
             THEN ProcessMessage(w1, j, t)
             ELSE SettleDeleteOnSuccess([w1 EXCEPT !.tasks[j].pc = "skipped",
                                                   !.tasks[j].chainedOn = 0],
                                        j, FALSE, t)

\* a settlement whose .then callbacks are never run: events queued behind
\* the task stay queued
SettleWithoutThen(w, i, fulfilled, t) ==
  IF w.tasks[i].direct
  THEN [w EXCEPT !.inflightRequests =
                    TimersRemove(w.inflightRequests, w.tasks[i].from)]
  ELSE w

\* the promise of task i is settled and its reactions run:
\*  - handleMessage's `finally` of a direct task deletes the user's entry
\*  - .then(() => processMessage(msg)) runs the callback when the promise is
\*    fulfilled, and rejects the chained promise when it is rejected
RECURSIVE Settle(_, _, _, _)
Settle(w, i, fulfilled, t) ==
  LET w1 == IF w.tasks[i].direct
            THEN [w EXCEPT !.inflightRequests =
                              TimersRemove(w.inflightRequests, w.tasks[i].from)]
            ELSE w
      succ == Successors(w1, i)
  IN IF succ = {} THEN w1
     ELSE LET j == CHOOSE x \in succ : TRUE
          IN IF fulfilled
             THEN ProcessMessage(w1, j, t)
             ELSE Settle([w1 EXCEPT !.tasks[j].pc = "skipped",
                                    !.tasks[j].chainedOn = 0], j, FALSE, t)

NewTask(msg, direct, chainedOn) ==
  [from |-> msg.from, pc |-> "chained", direct |-> direct,
   chainedOn |-> chainedOn, wakeAt |-> 0, ctx |-> 0]

Ignored(msg) ==
  \/ msg.from = GroupChat
  \/ msg.from = StatusBroadcast
  \/ msg.fromMe

\* handleMessage that lets one in-flight request of any user hold back all
DispatchGlobal(w, msg, t) ==
  IF DOMAIN w.inflightRequests # {}
  THEN LET any == CHOOSE u \in DOMAIN w.inflightRequests : TRUE
       IN [w EXCEPT !.tasks = Append(w.tasks,
                                     NewTask(msg, FALSE, w.inflightRequests[any])),
                    !.inflightRequests =
                        TimersPut(w.inflightRequests, any, Len(w.tasks) + 1)]
  ELSE LET started == ProcessMessage(
                        [w EXCEPT !.tasks = Append(w.tasks, NewTask(msg, TRUE, 0))],
                        Len(w.tasks) + 1, t)
       IN [started EXCEPT !.inflightRequests =
                             TimersPut(started.inflightRequests, msg.from,
                                       Len(w.tasks) + 1)]

\* handleMessage after the deduplication check (index.js:412-431), up to
\* its first await
Dispatch(w, msg, t) ==
  IF msg.from \in DOMAIN w.inflightRequests
  THEN [w EXCEPT !.tasks = Append(w.tasks,
                                  NewTask(msg, FALSE, w.inflightRequests[msg.from])),
                 !.inflightRequests =
                     TimersPut(w.inflightRequests, msg.from, Len(w.tasks) + 1)]
  ELSE LET started == ProcessMessage(
                        [w EXCEPT !.tasks = Append(w.tasks, NewTask(msg, TRUE, 0))],
                        Len(w.tasks) + 1, t)
       IN [started EXCEPT !.inflightRequests =
                             TimersPut(started.inflightRequests, msg.from,
                                       Len(w.tasks) + 1)]

Install(w) ==
  /\ tasks' = w.tasks
  /\ inflightRequests' = w.inflightRequests
  /\ userCooldowns' = w.userCooldowns
  /\ userMemory' = w.userMemory
  /\ userRegistry' = w.userRegistry
  /\ contexts' = w.contexts

\* message ids are opaque: a new id is the next unused number
PipelineIds ==
  {NoId} \cup {id \in 1..MaxMessageIds : id <= Len(deduplicator.seen.map) + 1}

\* user ids are opaque: a new user is the next unused name
KnownUsers == {tasks[i].from : i \in 1..Len(tasks)}
PipelineSenders ==
  {GroupChat, StatusBroadcast} \cup KnownUsers
    \cup (IF "u1" \in KnownUsers THEN Users ELSE {"u1"})

Messages == [from : PipelineSenders, fromMe : BOOLEAN, id : PipelineIds]

\* handleMessage that checks and marks the message id before it filters
\* out group messages, status broadcasts and messages from self
HandleMessageMarksIgnored(msg) ==
  /\ Len(tasks) < MaxEvents
  /\ deduplicator' = CheckAndMark(deduplicator, msg.id, now).dedup
  /\ IF Ignored(msg) \/ CheckAndMark(deduplicator, msg.id, now).value
     THEN UNCHANGED <<inflightRequests, tasks, userCooldowns,
                      userMemory, userRegistry, contexts>>
     ELSE Install(Dispatch(World, msg, now))
  /\ UNCHANGED <<lifeVars, aiVars, now, marks, evicted, storeVars>>

\* client.on('message', handleMessage)
HandleMessage(msg) ==
  /\ Len(tasks) < MaxEvents
  /\ IF Ignored(msg)
     THEN UNCHANGED <<deduplicator, inflightRequests, tasks, userCooldowns,
                      userMemory, userRegistry, contexts>>
     ELSE /\ deduplicator' = CheckAndMark(deduplicator, msg.id, now).dedup
          /\ IF CheckAndMark(deduplicator, msg.id, now).value
             THEN UNCHANGED <<inflightRequests, tasks, userCooldowns,
                              userMemory, userRegistry, contexts>>
             ELSE Install(Dispatch(World, msg, now))
  /\ UNCHANGED <<lifeVars, aiVars, now, marks, evicted, storeVars>>

\* the setTimeout of sleep(waitTime) fires
CooldownOver(i) ==
  /\ tasks[i].pc = "sleep"
  /\ now >= tasks[i].wakeAt
  /\ Install(ProcessBody(World, i, now))
  /\ UNCHANGED <<lifeVars, aiVars, now, dedupeVars, storeVars>>

\* the awaited handler returns a reply, returns an empty reply, or throws
HandlerReturns(i, outcome) ==
  /\ tasks[i].pc = "handler"
  /\ Install(CASE outcome = "reply" -> [World EXCEPT !.tasks[i].pc = "reply"]
               [] outcome = "empty" ->
                    Settle([World EXCEPT !.tasks[i].pc = "done", !.tasks[i].ctx = 0],
                           i, TRUE, now)
               [] outcome = "throw" ->
                    Settle([World EXCEPT !.tasks[i].pc = "failed", !.tasks[i].ctx = 0],
                           i, FALSE, now))
  /\ UNCHANGED <<lifeVars, aiVars, now, dedupeVars, storeVars>>

\* index.js:504-513 after msg.reply(reply) resolved
RecordReply(w, i, t) ==
  LET user == w.tasks[i].from
      regStore == TTLGet(w.userRegistry, user, t).store
  IN [w EXCEPT !.userCooldowns =
                   TTLSet(w.userCooldowns, user, t, w.userCooldowns.defaultTTL, t),
               !.userMemory =
                   TTLSet(w.userMemory, user, w.tasks[i].ctx, w.userMemory.defaultTTL, t),
               !.userRegistry =
                   TTLSet(regStore, user, "registered", regStore.defaultTTL, t),
               !.tasks[i].ctx = 0,
               !.tasks[i].pc = "done"]

\* msg.reply(reply) resolves or rejects
ReplySettles(i, sent) ==
  /\ tasks[i].pc = "reply"
  /\ Install(IF sent
             THEN Settle(RecordReply(World, i, now), i, TRUE, now)
             ELSE Settle([World EXCEPT !.tasks[i].pc = "failed", !.tasks[i].ctx = 0],
                         i, FALSE, now))
  /\ UNCHANGED <<lifeVars, aiVars, now, dedupeVars, storeVars>>

\* the per-entry timer of a cooldown entry fires
CooldownTimerFire(h) ==
  /\ h \in userCooldowns.pending
  /\ now >= h.due
  /\ userCooldowns' = TTLTimerFire(userCooldowns, h)
  /\ UNCHANGED <<lifeVars, aiVars, now, dedupeVars, storeVars, inflightRequests, tasks, userMemory,
                 userRegistry, contexts>>

\* Date.now() advances; the clock is followed until a cooldown entry written
\* at the start has expired
TickPipeline ==
  /\ now + PipelineStep <= StartTime + CooldownHorizon
  /\ now' = now + PipelineStep
  /\ UNCHANGED <<lifeVars, aiVars, dedupeVars, storeVars, pipelineVars>>

Init ==
  /\ now = StartTime
  /\ deduplicator = NewMessageDeduplicator(DEDUPE_TTL, MAX_ENTRIES, StartTime)
  /\ marks = [id \in MessageIds |-> 0]
  /\ evicted = {}
  /\ store = NewTTLMap(USER_MEMORY_TTL, StartTime)
  /\ written = [k \in Keys |-> NoWrite]
  /\ IdlePipeline

\* Within CooldownHorizon no timer or sweep of the deduplicator, of
\* userMemory or of userRegistry comes due; only cooldown entries expire.
Next ==
  \/ \E msg \in Messages : HandleMessage(msg)
  \/ \E i \in 1..Len(tasks) : CooldownOver(i)
  \/ \E i \in 1..Len(tasks), outcome \in {"reply", "empty", "throw"} :
        HandlerReturns(i, outcome)
  \/ \E i \in 1..Len(tasks), sent \in BOOLEAN : ReplySettles(i, sent)
  \/ \E h \in userCooldowns.pending : CooldownTimerFire(h)
  \/ TickPipeline

Spec == Init /\ [][Next]_vars

\* ------------------------------------------------------------------------
\* C1: for every user at most one processMessage execution is in progress
\* at any moment, also while the earlier one is suspended in the cooldown
\* sleep or awaits the reply.
\* ------------------------------------------------------------------------
C1_OneAtATime ==
  \A i, j \in 1..Len(tasks) :
    (i # j /\ tasks[i].from = tasks[j].from) => ~(Running(tasks[i]) /\ Running(tasks[j]))

\* ------------------------------------------------------------------------
\* C2: for a fixed user, if event A is accepted before event B, B's
\* processMessage starts only after A's processMessage has returned.
\* ------------------------------------------------------------------------
C2_StartAfterReturn ==
  \A i, j \in 1..Len(tasks) :
    (i < j /\ tasks[i].from = tasks[j].from /\ tasks[j].pc # "chained"
       /\ tasks[j].pc # "skipped")
      => Settled(tasks[i])

\* ------------------------------------------------------------------------
\* C3: if the handler of an event fails, every event of the same user that
\* was queued behind it still has its handler executed: no queued task is
\* skipped because a predecessor failed.
\* ------------------------------------------------------------------------
C3_NeverSkipped ==
  \A i \in 1..Len(tasks) : tasks[i].pc # "skipped"

\* ------------------------------------------------------------------------
\* C4: events of different users are not serialised against each other: an
\* accepted event of a user with no unfinished work starts its
\* processMessage at once, whatever runs or sleeps for other users, so
\* executions of different users overlap.
\* ------------------------------------------------------------------------
Accepted(msg) == ~Ignored(msg) /\ ~CheckAndMark(deduplicator, msg.id, now).value

C4_KeysIndependent ==
  \A msg \in Messages :
    (/\ \A i \in 1..Len(tasks) : tasks[i].from = msg.from => Settled(tasks[i])
     /\ Accepted(msg))
      => LET w == Dispatch(World, msg, now)
         IN /\ Len(w.tasks) = Len(tasks) + 1
            /\ w.tasks[Len(w.tasks)].from = msg.from
            /\ Running(w.tasks[Len(w.tasks)])

\* a user's event was started while another user's processMessage was
\* asleep in its cooldown; both are in progress
C4_Witness ==
  \E i, j \in 1..Len(tasks) :
    /\ i < j
    /\ tasks[i].from # tasks[j].from
    /\ tasks[i].pc = "sleep"
    /\ Running(tasks[j])

\* ------------------------------------------------------------------------
\* Specification SpecQueue: getTravelReply calls and the provider calls of
\* their tasks (gemini.js)
\* ------------------------------------------------------------------------
\* A task is the function getTravelReply hands to queue.add:
\*   pc      "waiting"      in the queue, not started
\*           "sendMessage"  awaiting chat.sendMessage(prompt)
\*           "summarize"    awaiting summarizeResponse(reply)
\*           "fulfilled"    returned; the promise of queue.add is fulfilled
\*   result  "none", or what the task returned: "reply" or "fallback"
AiWorld == [queue |-> queue, aiTasks |-> aiTasks, startOrder |-> startOrder]

InstallAi(a) ==
  /\ queue' = a.queue
  /\ aiTasks' = a.aiTasks
  /\ startOrder' = a.startOrder

Started(task) == task.pc \in {"sendMessage", "summarize", "fulfilled"}
InFlight(task) == task.pc \in {"sendMessage", "summarize"}

InitQueue ==
  /\ now = StartTime
  /\ store = NewTTLMap(USER_MEMORY_TTL, StartTime)
  /\ written = [k \in Keys |-> NoWrite]
  /\ deduplicator = NewMessageDeduplicator(DEDUPE_TTL, MAX_ENTRIES, StartTime)
  /\ marks = [id \in MessageIds |-> 0]
  /\ evicted = {}
  /\ inflightRequests = NoTimers
  /\ tasks = <<>>
  /\ userCooldowns = NewTTLMap(USER_COOLDOWN_TTL, StartTime)
  /\ userMemory = NewTTLMap(USER_MEMORY_TTL, StartTime)
  /\ userRegistry = NewTTLMap(USER_REGISTRY_TTL, StartTime)
  /\ contexts = <<>>
  /\ ProcessUp
  /\ \E env \in EnvSettings : AI_CONCURRENCY = AiConcurrency(env)
  /\ queue = NewQueue(AI_CONCURRENCY)
  /\ aiTasks = <<>>
  /\ startOrder = <<>>

\* the task returns `value`: the promise is fulfilled and the queue goes on
TaskReturns(a, i, value) ==
  PQNext([a EXCEPT !.aiTasks[i].pc = "fulfilled", !.aiTasks[i].result = value])

\* getTravelReply({text, userContext})
GetTravelReply ==
  /\ Len(aiTasks) < MaxSubmissions
  /\ InstallAi(Submit([AiWorld EXCEPT !.aiTasks =
                          Append(@, [pc |-> "waiting", result |-> "none"])],
                      Len(aiTasks) + 1))
  /\ UNCHANGED <<lifeVars, now, AI_CONCURRENCY, storeVars, dedupeVars, pipelineVars>>

\* what the caught error's message contains (error.message?.includes(...))
ProviderErrors == [quota : BOOLEAN, safety : BOOLEAN]

\* the text the catch block returns (gemini.js getTravelReply)
FallbackReply(error) ==
  IF error.quota
  THEN "I'm a bit overwhelmed right now. Please try again in a moment!"
  ELSE IF error.safety
       THEN "I can only help with travel-related questions. How can I assist with your travel plans?"
       ELSE "Sorry, I couldn't process that. Could you try rephrasing your travel question?"

\* a task without the try/catch: the provider's error rejects the promise of
\* queue.add
ProviderErrorRethrown(a, i) ==
  PQNext([a EXCEPT !.aiTasks[i].pc = "rejected"])

\* an awaited provider call of task i rejects: the catch block returns a
\* fallback text
ProviderError(a, i) == TaskReturns(a, i, "fallback")

\* chat.sendMessage(prompt) settles: with a reply within MAX_RESPONSE_LENGTH,
\* with a longer one, or with an error, which the task's catch turns into a
\* fallback text
SendMessageSettles(i, outcome) ==
  /\ aiTasks[i].pc = "sendMessage"
  /\ InstallAi(CASE outcome = "short" -> TaskReturns(AiWorld, i, "reply")
                 [] outcome = "long" -> [AiWorld EXCEPT !.aiTasks[i].pc = "summarize"]
                 [] outcome = "error" -> ProviderError(AiWorld, i))
  /\ UNCHANGED <<lifeVars, now, AI_CONCURRENCY, storeVars, dedupeVars, pipelineVars>>

\* summarizeResponse(reply) settles
SummarizeSettles(i, ok) ==
  /\ aiTasks[i].pc = "summarize"
  /\ InstallAi(IF ok THEN TaskReturns(AiWorld, i, "reply") ELSE ProviderError(AiWorld, i))
  /\ UNCHANGED <<lifeVars, now, AI_CONCURRENCY, storeVars, dedupeVars, pipelineVars>>

NextQueue ==
  \/ GetTravelReply
  \/ \E i \in 1..Len(aiTasks), outcome \in {"short", "long", "error"} :
        SendMessageSettles(i, outcome)
  \/ \E i \in 1..Len(aiTasks), ok \in BOOLEAN : SummarizeSettles(i, ok)

SpecQueue == InitQueue /\ [][NextQueue]_vars

\* ------------------------------------------------------------------------
\* C11: the number of getTravelReply tasks that have started and not settled
\* is at most AI_CONCURRENCY at all times, so the provider calls in flight
\* (chat.sendMessage and the summarizeResponse of the same task) never
\* exceed AI_CONCURRENCY.
\* ------------------------------------------------------------------------
ProviderCalls == {i \in 1..Len(aiTasks) : InFlight(aiTasks[i])}

C11_BoundedConcurrency ==
  /\ Cardinality({i \in 1..Len(aiTasks) :
                    Started(aiTasks[i]) /\ aiTasks[i].pc # "fulfilled"}) <= AI_CONCURRENCY
  /\ Cardinality(ProviderCalls) <= AI_CONCURRENCY

\* every slot is taken, one of them by a task in its summarizeResponse
\* call, and a further task waits
C11_Witness ==
  /\ Cardinality(ProviderCalls) = AI_CONCURRENCY
  /\ \E i \in ProviderCalls : aiTasks[i].pc = "summarize"
  /\ \E i \in 1..Len(aiTasks) : aiTasks[i].pc = "waiting"

\* ------------------------------------------------------------------------
\* C12: tasks start in submission order: a task submitted later never starts
\* before an earlier one has started; they may complete in any order.
\* ------------------------------------------------------------------------
C12_FifoStart ==
  /\ \A k \in 1..Len(startOrder) : startOrder[k] = k
  /\ \A i, j \in 1..Len(aiTasks) : (i < j /\ Started(aiTasks[j])) => Started(aiTasks[i])

\* a task that had to wait was started, and a later task has completed
\* while an earlier one is still in flight
C12_Witness ==
  /\ Len(startOrder) > AI_CONCURRENCY
  /\ \E i, j \in 1..Len(aiTasks) :
       i < j /\ InFlight(aiTasks[i]) /\ aiTasks[j].pc = "fulfilled"

\* ------------------------------------------------------------------------
\* Specification SpecQueueFair: SpecQueue in which every provider call that
\* was made settles (the external provider answers or fails)
\* ------------------------------------------------------------------------
ProviderSettles(i) ==
  /\ i \in 1..Len(aiTasks)
  /\ \/ \E outcome \in {"short", "long", "error"} : SendMessageSettles(i, outcome)
     \/ \E ok \in BOOLEAN : SummarizeSettles(i, ok)

SpecQueueFair ==
  /\ InitQueue
  /\ [][NextQueue]_vars
  /\ \A i \in 1..MaxSubmissions : WF_vars(ProviderSettles(i))

\* ------------------------------------------------------------------------
\* C13: if every started task settles, every submitted task eventually
\* starts and completes: a settlement frees the task's slot and, when tasks
\* are waiting, starts the next waiting task.
\* ------------------------------------------------------------------------
C13_Step ==
  \A i \in 1..Len(aiTasks) :
    (InFlight(aiTasks[i]) /\ aiTasks'[i].pc = "fulfilled") =>
      IF queue.waiting # <<>>
      THEN /\ startOrder' = Append(startOrder, Head(queue.waiting).id)
           /\ InFlight(aiTasks'[Head(queue.waiting).id])
           /\ queue'.pending = queue.pending
      ELSE /\ startOrder' = startOrder
           /\ queue'.pending = queue.pending - 1

C13_AllComplete ==
  /\ \A i \in 1..MaxSubmissions :
       (Len(aiTasks) >= i) ~> (Len(aiTasks) >= i /\ aiTasks[i].pc = "fulfilled")
  /\ [][C13_Step]_vars

\* more tasks than slots were submitted and all of them have completed,
\* some with a reply and some with the fallback of a failed provider call
C13_Witness ==
  /\ Len(aiTasks) > AI_CONCURRENCY
  /\ \A i \in 1..Len(aiTasks) : aiTasks[i].pc = "fulfilled"
  /\ \E i, j \in 1..Len(aiTasks) :
       aiTasks[i].result = "reply" /\ aiTasks[j].result = "fallback"

\* ------------------------------------------------------------------------
\* C14: two consecutive recorded completions of a user are at least
\* USER_COOLDOWN_MS apart: no processMessage of the user is past its cooldown
\* check (in its handler, or sending the reply after which the completion
\* is recorded) earlier than USER_COOLDOWN_MS after the user's most recent
\* recorded completion.
\* ------------------------------------------------------------------------
C14_MinSpacing ==
  \A i \in 1..Len(tasks) :
    (tasks[i].pc \in {"handler", "reply"} /\ MapHas(userCooldowns.map, tasks[i].from))
      => now - MapGet(userCooldowns.map, tasks[i].from).value >= USER_COOLDOWN_MS

\* ------------------------------------------------------------------------
\* C15: the inflightRequests entry of a user is never removed mid-flight:
\* while a processMessage of the user is running, or is queued behind one,
\* inflightRequests has an entry for the user.
\* ------------------------------------------------------------------------
C15_EntryWhileActive ==
  \A i \in 1..Len(tasks) :
    ~Settled(tasks[i]) => tasks[i].from \in DOMAIN inflightRequests

\* ------------------------------------------------------------------------
\* C16: inflightRequests does not keep idle users: once every processMessage
\* of a user has settled (returned, thrown, or been skipped) the map has no
\* entry for the user, so its size is at most the number of users with
\* unsettled work.
\* ------------------------------------------------------------------------
Unsettled(u) == {i \in 1..Len(tasks) : tasks[i].from = u /\ ~Settled(tasks[i])}

C16_NoIdleEntries ==
  /\ \A u \in DOMAIN inflightRequests : Unsettled(u) # {}
  /\ Cardinality(DOMAIN inflightRequests)
       <= Cardinality({u \in Users : Unsettled(u) # {}})

\* a user's direct call threw while another call was chained on it: all of
\* the user's calls have settled and the entry is gone
C16_Witness ==
  \E i, j \in 1..Len(tasks) :
    /\ tasks[i].from = tasks[j].from
    /\ tasks[i].direct /\ tasks[i].pc = "failed"
    /\ ~tasks[j].direct /\ tasks[j].pc = "skipped"
    /\ Unsettled(tasks[i].from) = {}
    /\ tasks[i].from \notin DOMAIN inflightRequests

\* ------------------------------------------------------------------------
\* C17: destroy() on a TTLMap cancels the sweep and every per-entry timer
\* and removes all entries: afterwards the size is 0 and neither a timer
\* callback nor the sweep callback of the store can run; the deduplicator's
\* destroy() does this to its store.
\* ------------------------------------------------------------------------
C17_DestroyStopsStore ==
  ~DedupLive =>
    /\ DedupSize(deduplicator) = 0
    /\ TTLSize(deduplicator.seen) = 0
    /\ deduplicator.seen.timers = NoTimers
    /\ deduplicator.seen.pending = {}
    /\ ~ENABLED SeenSweepFire
    /\ \A h \in deduplicator.seen.pending : ~ENABLED SeenTimerFire(h)

\* the deduplicator was destroyed while it held entries with armed timers,
\* after the clock had moved on
C17_Witness ==
  /\ ~DedupLive
  /\ deduplicator.maxEntries = 2
  /\ Cardinality(evicted) >= 2
  /\ now > StartTime

\* ------------------------------------------------------------------------
\* Specification SpecShutdown: the process from the start of main() to its
\* exit, with messages handled in between
\* ------------------------------------------------------------------------
Alive == exitCode = "none"

InitShutdown ==
  /\ now = StartTime
  /\ deduplicator = NewMessageDeduplicator(DEDUPE_TTL, MAX_ENTRIES, StartTime)
  /\ marks = [id \in MessageIds |-> 0]
  /\ evicted = {}
  /\ store = NewTTLMap(USER_MEMORY_TTL, StartTime)
  /\ written = [k \in Keys |-> NoWrite]
  /\ IdleQueue
  /\ inflightRequests = NoTimers
  /\ tasks = <<>>
  /\ userCooldowns = NewTTLMap(USER_COOLDOWN_TTL, StartTime)
  /\ userMemory = NewTTLMap(USER_MEMORY_TTL, StartTime)
  /\ userRegistry = NewTTLMap(USER_REGISTRY_TTL, StartTime)
  /\ contexts = <<>>
  /\ mainPc = "start"
  /\ client = "null"
  /\ reconnectTimeout = "null"
  /\ reconnectAttempts = 0
  /\ reconnectTimers = <<>>
  /\ reconnecting = 0
  /\ reconnectDelays = <<>>
  /\ shutdowns = 0
  /\ destroyCalls = NoDestroyCalls
  /\ exitCode = "none"

\* the reconnect state: the handle held in reconnectTimeout, the counter,
\* the pending timers and the delays scheduled since the counter was 0
Reconnect ==
  [timeout |-> reconnectTimeout, attempts |-> reconnectAttempts,
   timers |-> reconnectTimers, delays |-> reconnectDelays]

InstallReconnect(r) ==
  /\ reconnectTimeout' = r.timeout
  /\ reconnectAttempts' = r.attempts
  /\ reconnectTimers' = r.timers
  /\ reconnectDelays' = r.delays

\* Math.min(30000, 1000 * Math.pow(2, reconnectAttempts)) without the cap
ReconnectDelayUncapped(attempts) == 1000 * 2^attempts

\* Math.min(30000, 1000 * Math.pow(2, reconnectAttempts))
ReconnectDelay(attempts) ==
  IF 1000 * 2^attempts < 30000 THEN 1000 * 2^attempts ELSE 30000

\* scheduleReconnect() without `if (reconnectTimeout) return`
ScheduleReconnectUnguarded(r) ==
  [timeout |-> "armed",
   attempts |-> r.attempts + 1,
   timers |-> Append(r.timers, ReconnectDelay(r.attempts + 1)),
   delays |-> Append(r.delays, ReconnectDelay(r.attempts + 1))]

\* scheduleReconnect(): nothing when reconnectTimeout is set, else the
\* counter is incremented and the reconnect timer is armed
ScheduleReconnect(r) ==
  IF r.timeout # "null" THEN r
  ELSE [timeout |-> "armed",
        attempts |-> r.attempts + 1,
        timers |-> Append(r.timers, ReconnectDelay(r.attempts + 1)),
        delays |-> Append(r.delays, ReconnectDelay(r.attempts + 1))]

\* main() up to `await client.initialize()`; when app.listen or
\* createClient throws, main().catch calls process.exit(1)
MainStarts(ok) ==
  /\ Alive
  /\ mainPc = "start"
  /\ IF ok
     THEN /\ client' = "client"
          /\ mainPc' = "initializing"
          /\ UNCHANGED exitCode
     ELSE /\ mainPc' = "failed"
          /\ exitCode' = "1"
          /\ UNCHANGED client
  /\ UNCHANGED <<now, storeVars, dedupeVars, pipelineVars, aiVars, reconnectTimeout,
                 reconnectVars, shutdowns, destroyCalls>>

\* client.initialize() settles; main's catch schedules a reconnect
InitializeSettles(ok) ==
  /\ Alive
  /\ mainPc = "initializing"
  /\ mainPc' = "done"
  /\ InstallReconnect(IF ok THEN Reconnect ELSE ScheduleReconnect(Reconnect))
  /\ UNCHANGED <<now, storeVars, dedupeVars, pipelineVars, aiVars, client, shutdowns,
                 destroyCalls, exitCode, reconnecting>>

\* shutdown() after `await client.destroy()`: the stores are destroyed and
\* the process exits
FinishShutdown ==
  /\ userMemory' = TTLDestroy(userMemory)
  /\ userRegistry' = TTLDestroy(userRegistry)
  /\ deduplicator' = DestroyDeduplicator(deduplicator)
  /\ destroyCalls' = [n \in StoreNames |->
                        IF n \in {"userMemory", "userRegistry", "deduplicator"}
                        THEN destroyCalls[n] + 1 ELSE destroyCalls[n]]
  /\ exitCode' = "0"

\* process.on('SIGTERM' / 'SIGINT'): shutdown(signal) up to its first await
Signal(sig) ==
  /\ Alive
  /\ mainPc # "start"
  /\ shutdowns < MaxSignals
  /\ reconnectTimeout' = IF reconnectTimeout = "armed" THEN "cleared"
                         ELSE reconnectTimeout
  /\ reconnectTimers' = IF reconnectTimeout = "armed"
                        THEN SubSeq(reconnectTimers, 1, Len(reconnectTimers) - 1)
                        ELSE reconnectTimers
  /\ IF client # "null"
     THEN /\ shutdowns' = shutdowns + 1
          /\ UNCHANGED <<userMemory, userRegistry, deduplicator, destroyCalls, exitCode>>
     ELSE /\ FinishShutdown
          /\ UNCHANGED shutdowns
  /\ UNCHANGED <<now, storeVars, marks, evicted, inflightRequests, tasks, userCooldowns,
                 contexts, aiVars, mainPc, client, reconnectAttempts, reconnecting,
                 reconnectDelays>>

\* client.destroy() of a shutdown() call settles, with or without an error
ClientDestroySettles(ok) ==
  /\ Alive
  /\ shutdowns > 0
  /\ shutdowns' = shutdowns - 1
  /\ FinishShutdown
  /\ UNCHANGED <<now, storeVars, marks, evicted, inflightRequests, tasks, userCooldowns,
                 contexts, aiVars, mainPc, client, reconnectTimeout, reconnectVars>>

\* process.on('uncaughtException'): process.exit(1)
UncaughtException ==
  /\ Alive
  /\ mainPc # "start"
  /\ exitCode' = "1"
  /\ UNCHANGED <<now, storeVars, dedupeVars, pipelineVars, aiVars, mainPc, client,
                 reconnectTimeout, reconnectVars, shutdowns, destroyCalls>>

\* the client delivers messages and the event loop runs their handlers
\* while the process is up
MessagesHandled ==
  /\ Alive
  /\ client # "null"
  /\ Next
  /\ Len(tasks') <= MaxShutdownEvents

NextShutdown ==
  \/ \E ok \in BOOLEAN : MainStarts(ok)
  \/ \E ok \in BOOLEAN : InitializeSettles(ok)
  \/ \E sig \in {"SIGTERM", "SIGINT"} : Signal(sig)
  \/ \E ok \in BOOLEAN : ClientDestroySettles(ok)
  \/ UncaughtException
  \/ MessagesHandled

SpecShutdown == InitShutdown /\ [][NextShutdown]_vars

\* ------------------------------------------------------------------------
\* C18: on every exit path (SIGTERM, SIGINT, uncaught exception, fatal error
\* in main) destroy() has been called exactly once on each of userMemory,
\* userRegistry, userCooldowns and the deduplicator when the process exits,
\* also when a second signal arrives while the first shutdown awaits
\* client.destroy().
\* ------------------------------------------------------------------------
C18_DestroyOncePerStore ==
  ~Alive => \A n \in StoreNames : destroyCalls[n] = 1

\* ------------------------------------------------------------------------
\* Specification SpecCooldown: the message pipeline on a clock of half a
\* cooldown, followed until a completion recorded within the first cooldown
\* has expired from userCooldowns
\* ------------------------------------------------------------------------
CooldownStep == USER_COOLDOWN_MS \div 2
CooldownEnd == StartTime + USER_COOLDOWN_MS + USER_COOLDOWN_TTL + CooldownStep

TickCooldown ==
  /\ now + CooldownStep <= CooldownEnd
  /\ now' = now + CooldownStep
  /\ UNCHANGED <<lifeVars, aiVars, dedupeVars, storeVars, pipelineVars>>

\* the messages followed are those that reach processMessage: an ignored or
\* a duplicate message leaves userCooldowns and every task as they are. Each
\* carries a new id while one is left and none after that.
NewMessageId ==
  IF Len(deduplicator.seen.map) < MaxMessageIds
  THEN Len(deduplicator.seen.map) + 1
  ELSE NoId

MessageAccepted(msg) ==
  /\ Len(tasks) < MaxCooldownEvents
  /\ msg.id = NewMessageId
  /\ Accepted(msg)
  /\ HandleMessage(msg)

NextCooldown ==
  \/ \E msg \in Messages : MessageAccepted(msg)
  \/ \E i \in 1..Len(tasks) : CooldownOver(i)
  \/ \E i \in 1..Len(tasks), outcome \in {"reply", "empty", "throw"} :
        HandlerReturns(i, outcome)
  \/ \E i \in 1..Len(tasks), sent \in BOOLEAN : ReplySettles(i, sent)
  \/ \E h \in userCooldowns.pending : CooldownTimerFire(h)
  \/ TickCooldown

\* the event loop runs a timer that is due, and time passes
SpecCooldown ==
  /\ Init
  /\ [][NextCooldown]_vars
  /\ WF_vars(TickCooldown)
  /\ \A u \in Users : WF_vars(\E h \in userCooldowns.pending :
                                 h.key = u /\ CooldownTimerFire(h))

\* when the last reply to the user was recorded (index.js:504-505 write
\* userCooldowns and userMemory together), 0 if none was
RecordedAt(u) ==
  IF MapHas(userMemory.map, u)
  THEN MapGet(userMemory.map, u).expiresAt - USER_MEMORY_TTL
  ELSE 0

\* the task a processMessage call for the user would be at its first await
CooldownCheck(u) ==
  ProcessMessage([World EXCEPT !.tasks = Append(tasks, NewTask([from |-> u], TRUE, 0))],
                 Len(tasks) + 1, now).tasks[Len(tasks) + 1]

\* ------------------------------------------------------------------------
\* C19: the cooldown check of processMessage does not wait when no
\* completion is recorded for the user (none was, or it has expired) or when
\* USER_COOLDOWN_MS or more have passed since it; otherwise it suspends the
\* call for exactly USER_COOLDOWN_MS minus the elapsed time.
\* ------------------------------------------------------------------------
C19_CooldownCheck ==
  /\ \A u \in Users :
       IF RecordedAt(u) = 0 \/ now - RecordedAt(u) >= USER_COOLDOWN_MS
       THEN /\ CooldownCheck(u).pc = "handler"
            /\ CooldownCheck(u).wakeAt = 0
       ELSE /\ CooldownCheck(u).pc = "sleep"
            /\ CooldownCheck(u).wakeAt - now = USER_COOLDOWN_MS - (now - RecordedAt(u))
  /\ \A i \in 1..Len(tasks) :
       tasks[i].pc = "sleep" =>
         \E at \in {tasks[i].wakeAt - USER_COOLDOWN_MS} : at >= StartTime /\ at <= now

\* a message arrived part-way through the cooldown of the last reply and
\* its processMessage sleeps for the rest of it
C19_Witness ==
  \E i \in 1..Len(tasks) :
    /\ tasks[i].pc = "sleep"
    /\ RecordedAt(tasks[i].from) # 0
    /\ now > RecordedAt(tasks[i].from)
    /\ now < RecordedAt(tasks[i].from) + USER_COOLDOWN_MS
    /\ tasks[i].wakeAt = RecordedAt(tasks[i].from) + USER_COOLDOWN_MS

\* the times at which a reply can be recorded early enough for its entry to
\* expire before the clock stops
EarlyCompletions ==
  {StartTime + k * CooldownStep : k \in 0..(USER_COOLDOWN_MS \div CooldownStep)}

\* what the cooldown store holds and answers for the user's last completion
C20_Stored ==
  \A u \in Users :
    /\ MapHas(userCooldowns.map, u) =>
         /\ RecordedAt(u) # 0
         /\ MapGet(userCooldowns.map, u).value = RecordedAt(u)
         /\ MapGet(userCooldowns.map, u).expiresAt = RecordedAt(u) + 2 * USER_COOLDOWN_MS
         /\ \E h \in userCooldowns.pending :
              h.key = u /\ h.due = MapGet(userCooldowns.map, u).expiresAt
    /\ (RecordedAt(u) # 0 /\ now - RecordedAt(u) <= USER_COOLDOWN_MS) =>
         /\ TTLGet(userCooldowns, u, now).found
         /\ TTLGet(userCooldowns, u, now).value = RecordedAt(u)
    /\ (RecordedAt(u) # 0 /\ now - RecordedAt(u) > 2 * USER_COOLDOWN_MS) =>
         /\ ~TTLGet(userCooldowns, u, now).found
         /\ ~MapHas(TTLGet(userCooldowns, u, now).store.map, u)

\* ------------------------------------------------------------------------
\* C20: a recorded completion is stored with TTL 2 x USER_COOLDOWN_MS: it is
\* readable for the whole cooldown window after it was recorded, and once
\* 2 x USER_COOLDOWN_MS have passed with no new completion for the user the
\* store answers not-found and eventually holds no entry for the user.
\* ------------------------------------------------------------------------
C20_CompletionExpires ==
  /\ []C20_Stored
  /\ <>[](\A u \in Users :
             MapHas(userCooldowns.map, u) => RecordedAt(u) \notin EarlyCompletions)

\* more than twice the cooldown after the user's last reply the store holds
\* nothing for the user
C20_Witness ==
  \E u \in Users :
    /\ RecordedAt(u) # 0
    /\ now - RecordedAt(u) > 2 * USER_COOLDOWN_MS
    /\ ~MapHas(userCooldowns.map, u)

\* ------------------------------------------------------------------------
\* The promise of the handleMessage call that accepted a task's event
\* (index.js:379-438)
\* ------------------------------------------------------------------------
\* handleMessage without its outer try/catch: the rejection of the awaited
\* processMessage leaves through the `finally` to the caller
HandleMessagePromiseNoCatch(task) ==
  IF task.direct
  THEN CASE task.pc = "failed" -> "rejected"
         [] task.pc = "done" -> "fulfilled"
         [] OTHER -> "pending"
  ELSE "fulfilled"

\* A direct call awaits its processMessage inside try/finally inside the
\* outer try/catch, so it is pending until processMessage settles and then
\* fulfils. A call that found an entry chains the event and returns.
HandleMessagePromise(task) ==
  IF task.direct
  THEN IF Settled(task) THEN "fulfilled" ELSE "pending"
  ELSE "fulfilled"

\* the outer catch of the handleMessage call ran for the task's failure
\* (index.js:432-437)
ErrorHandled(task) == task.direct /\ task.pc = "failed"

\* the handler or the reply of task i fails now
FailNow(i) ==
  Settle([World EXCEPT !.tasks[i].pc = "failed", !.tasks[i].ctx = 0], i, FALSE, now)

\* ------------------------------------------------------------------------
\* C21: a failure of a handler for one user never makes a task of another
\* user fail, be skipped or be delayed, and no handler failure makes
\* handleMessage reject to the transport that delivered the event.
\* ------------------------------------------------------------------------
C21_FailureIsolated ==
  /\ \A i \in 1..Len(tasks) : HandleMessagePromise(tasks[i]) # "rejected"
  /\ \A i \in 1..Len(tasks) :
       tasks[i].pc \in {"handler", "reply"} =>
         /\ \A j \in 1..Len(tasks) :
              tasks[j].from # tasks[i].from => FailNow(i).tasks[j] = tasks[j]
         /\ \A u \in Users \ {tasks[i].from} :
              /\ (u \in DOMAIN FailNow(i).inflightRequests) = (u \in DOMAIN inflightRequests)
              /\ u \in DOMAIN inflightRequests =>
                   FailNow(i).inflightRequests[u] = inflightRequests[u]
              /\ MapHas(FailNow(i).userCooldowns.map, u) = MapHas(userCooldowns.map, u)
              /\ MapHas(userCooldowns.map, u) =>
                   MapGet(FailNow(i).userCooldowns.map, u) = MapGet(userCooldowns.map, u)
         /\ \A j \in 1..Len(FailNow(i).tasks) :
              HandleMessagePromise(FailNow(i).tasks[j]) # "rejected"
  /\ \A i \in 1..Len(tasks) :
       tasks[i].pc = "chained" =>
         /\ tasks[i].chainedOn \in 1..Len(tasks)
         /\ tasks[tasks[i].chainedOn].from = tasks[i].from
         /\ ~Settled(tasks[tasks[i].chainedOn])

\* the handler of one user has failed while a task of another user goes on
C21_Witness ==
  \E i, j \in 1..Len(tasks) :
    /\ tasks[i].from # tasks[j].from
    /\ tasks[i].pc = "failed"
    /\ tasks[i].direct
    /\ Running(tasks[j])
    /\ HandleMessagePromise(tasks[i]) = "fulfilled"

\* ------------------------------------------------------------------------
\* C22: the promise returned by handleMessage for an accepted event settles
\* only after that event's processMessage has finished, and a failure of
\* that processMessage is seen by the error handling of the same
\* handleMessage call, also when the event was queued behind an in-flight
\* task of the same user.
\* ------------------------------------------------------------------------
C22_HandleReflectsTask ==
  \A i \in 1..Len(tasks) :
    /\ HandleMessagePromise(tasks[i]) # "pending" => Returned(tasks[i])
    /\ tasks[i].pc = "failed" => ErrorHandled(tasks[i])

\* ------------------------------------------------------------------------
\* Specification SpecProgress: the message pipeline with an event loop that
\* runs what is ready: a due sleep timer fires, an awaited handler and an
\* awaited msg.reply settle, and time passes while a call sleeps
\* ------------------------------------------------------------------------
TickProgress ==
  /\ \/ now + PipelineStep <= StartTime + CooldownHorizon
     \/ \E i \in 1..Len(tasks) : tasks[i].pc = "sleep" /\ tasks[i].wakeAt > now
  /\ now' = now + PipelineStep
  /\ UNCHANGED <<lifeVars, aiVars, dedupeVars, storeVars, pipelineVars>>

\* what the event loop does on its own: everything but the arrival of a message
Runs ==
  \/ \E i \in 1..Len(tasks) : CooldownOver(i)
  \/ \E i \in 1..Len(tasks), outcome \in {"reply", "empty", "throw"} :
        HandlerReturns(i, outcome)
  \/ \E i \in 1..Len(tasks), sent \in BOOLEAN : ReplySettles(i, sent)
  \/ \E h \in userCooldowns.pending : CooldownTimerFire(h)
  \/ TickProgress

NextProgress ==
  \/ \E msg \in Messages : MessageAccepted(msg)
  \/ Runs

\* the event loop does not stop while something is ready. Every step of Runs
\* brings a call nearer its end or the clock nearer its last value, so this
\* is enough for every awaited handler and reply to settle.
SpecProgress ==
  /\ Init
  /\ [][NextProgress]_vars
  /\ WF_vars(Runs)

RECURSIVE SumSeq(_)
SumSeq(q) == IF q = <<>> THEN 0 ELSE Head(q) + SumSeq(Tail(q))

\* processMessage calls that got past the cooldown, counted by the
\* messageCount increments of index.js:460 and index.js:463-471
Executions == SumSeq(contexts)

\* every processMessage execution belongs to one task and no task has two
C29_Once ==
  Executions = Cardinality({i \in 1..Len(tasks) :
                              tasks[i].pc \in {"handler", "reply", "done", "failed"}})

NoFailureFor(u) ==
  \A i \in 1..Len(tasks) : tasks[i].from = u => tasks[i].pc \notin {"failed", "skipped"}

\* ------------------------------------------------------------------------
\* C29: if every handler for a user terminates successfully, every accepted
\* event of the user eventually has its processMessage executed, and
\* executed exactly once, for any arrival pattern of the user's events.
\* ------------------------------------------------------------------------
C29_EveryEventRuns ==
  /\ []C29_Once
  /\ \A u \in Users :
       \/ <>(~NoFailureFor(u))
       \/ <>[](\A i \in 1..Len(tasks) : tasks[i].from = u => tasks[i].pc = "done")

\* an event queued behind the user's running call has been executed after it
C29_Witness ==
  \E i, j \in 1..Len(tasks) :
    /\ i < j
    /\ tasks[i].from = tasks[j].from
    /\ ~tasks[j].direct
    /\ tasks[i].pc = "done"
    /\ tasks[j].pc = "done"
    /\ NoFailureFor(tasks[i].from)
    /\ C29_Once

\* ------------------------------------------------------------------------
\* Reads of a TTLMap whose timers and sweep never run: what get (ttlMap.js:
\* 48-58) and has (ttlMap.js:65-75) answer from the caller's last write of
\* the key alone
\* ------------------------------------------------------------------------
Unexpired(k) == written[k].set /\ ~(now > written[k].at + written[k].ttl)
GetWithoutBackground(k) == IF Unexpired(k) THEN written[k].value ELSE Undefined
HasWithoutBackground(k) == Unexpired(k)

\* ------------------------------------------------------------------------
\* C23: the results of get and has do not depend on background expiry: for
\* every sequence of set/get/has/delete/update calls and every timing, a
\* read returns the same whether the sweep and the per-entry timers fire at
\* any moment or never fire.
\* ------------------------------------------------------------------------
C23_ReadsIgnoreBackground ==
  \A k \in Keys :
    /\ TTLGet(store, k, now).value = GetWithoutBackground(k)
    /\ TTLHas(store, k, now).value = HasWithoutBackground(k)

\* the state of the store that belongs to one key
KeyState(s, k) ==
  [present |-> MapHas(s.map, k),
   entry |-> IF MapHas(s.map, k) THEN <<MapGet(s.map, k)>> ELSE <<>>,
   timer |-> IF k \in DOMAIN s.timers THEN {s.timers[k]} ELSE {},
   pending |-> {h \in s.pending : h.key = k}]

Stale(s, k, t) == MapHas(s.map, k) /\ t > MapGet(s.map, k).expiresAt

\* what a read of key k that left store r did to the store
C24_ReadEffect(r, k) ==
  IF Stale(store, k, now)
  THEN /\ ~MapHas(r.map, k)
       /\ TTLSize(r) = TTLSize(store) - 1
       /\ KeyState(r, k).pending = {}
       /\ k \notin DOMAIN r.timers
       /\ \A other \in Keys \ {k} : KeyState(r, other) = KeyState(store, other)
       /\ KeySeq(r.map) = KeySeq(MapRemove(store.map, k))
       /\ r.sweep = store.sweep
  ELSE r = store

\* ------------------------------------------------------------------------
\* C24: a read evicts only what it found stale: get(K) or has(K) on an
\* entry with now > expiresAt removes exactly that entry (size decreases by
\* one, its timer is cancelled) and leaves every other entry unchanged; a
\* read of a fresh or absent key changes nothing; size counts the entries
\* physically present, stale ones included.
\* ------------------------------------------------------------------------
C24_ReadEvictsOnlyStale ==
  /\ \A k \in Keys :
       /\ C24_ReadEffect(TTLGet(store, k, now).store, k)
       /\ C24_ReadEffect(TTLHas(store, k, now).store, k)
  /\ TTLSize(store) = Cardinality({k \in Keys : MapHas(store.map, k)})

\* two entries are stale and still in the store, counted by size: a read of
\* one must leave the other
C24_Witness ==
  /\ \A k \in Keys : Stale(store, k, now)
  /\ TTLSize(store) = Cardinality(Keys)
  /\ \A k \in Keys : TTLSize(TTLGet(store, k, now).store) = Cardinality(Keys) - 1

\* ------------------------------------------------------------------------
\* C25: delete(K) removes the entry for K unconditionally and is
\* idempotent: after it get(K) is not-found and has(K) is false; deleting
\* an absent key, or deleting twice, leaves the store as a single delete
\* does, and other keys are unchanged.
\* ------------------------------------------------------------------------
C25_DeleteIdempotent ==
  \A k \in Keys :
    /\ ~TTLGet(TTLDelete(store, k), k, now).found
    /\ ~TTLHas(TTLDelete(store, k), k, now).value
    /\ ~MapHas(TTLDelete(store, k).map, k)
    /\ TTLDelete(TTLDelete(store, k), k) = TTLDelete(store, k)
    /\ ~MapHas(store.map, k) => TTLDelete(store, k) = store
    /\ \A other \in Keys \ {k} :
         KeyState(TTLDelete(store, k), other) = KeyState(store, other)

\* a fresh entry and a stale entry are in the store: delete removes either
C25_Witness ==
  \E k, other \in Keys :
    /\ k # other
    /\ MapHas(store.map, k) /\ ~Stale(store, k, now)
    /\ Stale(store, other, now)
    /\ TTLSize(TTLDelete(store, k)) = 1
    /\ TTLSize(TTLDelete(store, other)) = 1

\* the value get(K) hands to the updater
C26_Current(k) ==
  IF MapHas(store.map, k) /\ ~(now > MapGet(store.map, k).expiresAt)
  THEN MapGet(store.map, k).value
  ELSE Undefined

\* ------------------------------------------------------------------------
\* C26: update(K, fn, ttl) has the effect of set(K, fn(get(K)), ttl): fn
\* receives the current value, or the not-found value when K is absent or
\* expired, and the result is stored with the fresh deadline now + ttl (ttl
\* defaulting to the store default), replacing any earlier deadline.
\* ------------------------------------------------------------------------
C26_UpdateIsSetOfGet ==
  \A k \in Keys, u \in Updaters, ttl \in TTLs \cup {NoTTL} :
    LET after == TTLUpdate(store, k, u, DefaultTTL(store, ttl), now)
        deadline == now + (IF ttl = NoTTL THEN store.defaultTTL ELSE ttl)
    IN /\ KeyState(after, k) =
            [present |-> TRUE,
             entry |-> <<[key |-> k, value |-> ApplyUpdater(u, C26_Current(k)),
                          expiresAt |-> deadline]>>,
             timer |-> {deadline},
             pending |-> {Handle(k, deadline)}]
       /\ \A other \in Keys \ {k} : KeyState(after, other) = KeyState(store, other)
       /\ after = TTLSet(TTLGet(store, k, now).store, k,
                         ApplyUpdater(u, TTLGet(store, k, now).value),
                         DefaultTTL(store, ttl), now)

\* an expired entry is still in the store with a value the updater would
\* change: update must start from not-found
C26_Witness ==
  \E k \in Keys :
    /\ Stale(store, k, now)
    /\ MapGet(store.map, k).value = "v2"
    /\ MapGet(TTLUpdate(store, k, "init", DefaultTTL(store, NoTTL), now).map, k)
         = [key |-> k, value |-> "v1", expiresAt |-> now + store.defaultTTL]

\* ------------------------------------------------------------------------
\* C27: an empty or missing id is a no-op for the deduplicator: isDuplicate
\* and checkAndMark return false, markSeen stores nothing and the store is
\* unchanged (no eviction even at capacity); an inbound event without a
\* message id is therefore never suppressed as a duplicate.
\* ------------------------------------------------------------------------
C27_EmptyIdNoOp ==
  /\ IsDuplicate(deduplicator, NoId, now) = [value |-> FALSE, dedup |-> deduplicator]
  /\ MarkSeen(deduplicator, NoId, now) = deduplicator
  /\ CheckAndMark(deduplicator, NoId, now) = [value |-> FALSE, dedup |-> deduplicator]
  /\ \A u \in Users :
       /\ Accepted([from |-> u, fromMe |-> FALSE, id |-> NoId])
       /\ Len(Dispatch(World, [from |-> u, fromMe |-> FALSE, id |-> NoId], now).tasks)
            = Len(tasks) + 1

\* the store is at capacity, where markSeen of a proper id evicts
C27_Witness ==
  /\ DedupLive
  /\ ToDelete(deduplicator.maxEntries) > 0
  /\ DedupSize(deduplicator) >= deduplicator.maxEntries
  /\ DedupSize(MarkSeen(deduplicator, NoId, now)) = deduplicator.maxEntries

\* ------------------------------------------------------------------------
\* Specification SpecEvict: a MessageDeduplicator whose capacity eviction
\* removes an entry (maxEntries 10) and whose entries expire within the
\* clock's range
\* ------------------------------------------------------------------------
\* the constructor arguments (ttl, maxEntries)
EvictConfig == <<StoreStep, 10>>

InitEvict ==
  /\ now = StartTime
  /\ deduplicator = NewMessageDeduplicator(EvictConfig[1], EvictConfig[2], StartTime)
  /\ marks = [id \in MessageIds |-> 0]
  /\ evicted = {}
  /\ store = NewTTLMap(USER_MEMORY_TTL, StartTime)
  /\ written = [k \in Keys |-> NoWrite]
  /\ IdlePipeline

EvictIds == {id \in UsedIds \cup FreshIds : id <= MaxEvictIds}

NextEvict ==
  \/ \E id \in EvictIds : DoIsDuplicate(id)
  \/ \E id \in EvictIds : DoMarkSeen(id)
  \/ \E id \in EvictIds : DoCheckAndMark(id)
  \/ DoDestroy
  \/ \E h \in deduplicator.seen.pending : SeenTimerFire(h)
  \/ SeenSweepFire
  \/ TickDedupe

SpecEvict == InitEvict /\ [][NextEvict]_vars

\* the ids evictOldest() removes from the store as it stands
EvictedBy(d) == MapKeys(d.seen.map) \ MapKeys(EvictOldest(d).seen.map)

\* ------------------------------------------------------------------------
\* C28 (as stated): eviction order is insertion order, not access order:
\* calling isDuplicate(id), or a checkAndMark(id) that returns true, does
\* not change which ids the next capacity eviction removes.
\* ------------------------------------------------------------------------
C28_Original ==
  \A id \in EvictIds :
    /\ EvictedBy(IsDuplicate(deduplicator, id, now).dedup) = EvictedBy(deduplicator)
    /\ CheckAndMark(deduplicator, id, now).value =>
         EvictedBy(CheckAndMark(deduplicator, id, now).dedup) = EvictedBy(deduplicator)

\* C28 (amended): eviction order is insertion order, not access order: an
\* isDuplicate(id) or a checkAndMark(id) that returns true, that is, one
\* that finds the id unexpired, does not change which ids the next capacity
\* eviction removes, nor the order of the entries; a call that finds the id
\* expired removes that entry and so can change them.
C28_EvictionIgnoresAccess ==
  \A id \in EvictIds :
    /\ IsDuplicate(deduplicator, id, now).value =>
         /\ EvictedBy(IsDuplicate(deduplicator, id, now).dedup) = EvictedBy(deduplicator)
         /\ KeySeq(IsDuplicate(deduplicator, id, now).dedup.seen.map)
              = KeySeq(deduplicator.seen.map)
    /\ CheckAndMark(deduplicator, id, now).value =>
         /\ EvictedBy(CheckAndMark(deduplicator, id, now).dedup) = EvictedBy(deduplicator)
         /\ KeySeq(CheckAndMark(deduplicator, id, now).dedup.seen.map)
              = KeySeq(deduplicator.seen.map)
    /\ (MapHas(deduplicator.seen.map, id) /\ ~IsDuplicate(deduplicator, id, now).value) =>
         ~MapHas(IsDuplicate(deduplicator, id, now).dedup.seen.map, id)

\* the oldest entry is found unexpired by a check while a newer one is in
\* the store: the next eviction still removes the oldest
C28_Witness ==
  /\ Len(deduplicator.seen.map) >= 2
  /\ IsDuplicate(deduplicator, deduplicator.seen.map[1].key, now).value
  /\ EvictedBy(deduplicator) = {deduplicator.seen.map[1].key}
  /\ marks[deduplicator.seen.map[1].key] > marks[deduplicator.seen.map[2].key]

\* ------------------------------------------------------------------------
\* C30: a failure of the external provider inside a queued getTravelReply
\* task is turned into a value: the returned promise resolves to a
\* non-empty fallback reply and never rejects, and the task's queue slot is
\* released so that a waiting task can start.
\* ------------------------------------------------------------------------
C30_FailureIsValue ==
  /\ \A error \in ProviderErrors : FallbackReply(error) # ""
  /\ \A i \in 1..Len(aiTasks) :
       /\ aiTasks[i].pc \in {"waiting", "sendMessage", "summarize", "fulfilled"}
       /\ (aiTasks[i].pc = "fulfilled") = (aiTasks[i].result \in {"reply", "fallback"})
       /\ InFlight(aiTasks[i]) =>
            /\ ProviderError(AiWorld, i).aiTasks[i] = [pc |-> "fulfilled", result |-> "fallback"]
            /\ IF queue.waiting # <<>>
               THEN /\ InFlight(ProviderError(AiWorld, i).aiTasks[Head(queue.waiting).id])
                    /\ ProviderError(AiWorld, i).queue.waiting = Tail(queue.waiting)
                    /\ ProviderError(AiWorld, i).queue.pending = queue.pending
               ELSE ProviderError(AiWorld, i).queue.pending = queue.pending - 1

\* a provider call failed, its task returned the fallback, and a task that
\* had been waiting for a slot was started
C30_Witness ==
  /\ Len(startOrder) > AI_CONCURRENCY
  /\ \E i \in 1..Len(aiTasks) :
       /\ aiTasks[i].pc = "fulfilled"
       /\ aiTasks[i].result = "fallback"
       /\ \A j \in 1..Len(aiTasks) : j # i => aiTasks[j].result = "none"
  /\ \E j \in 1..Len(aiTasks) :
       /\ InFlight(aiTasks[j])
       /\ \E k \in (AI_CONCURRENCY + 1)..Len(startOrder) : startOrder[k] = j

\* ------------------------------------------------------------------------
\* What is stored for a user: the cooldown timestamp, and the session
\* memory, which is the stored userContext object with its messageCount
\* ------------------------------------------------------------------------
CooldownIn(w, u) ==
  IF MapHas(w.userCooldowns.map, u) THEN <<MapGet(w.userCooldowns.map, u)>> ELSE <<>>

SessionIn(w, u) ==
  IF MapHas(w.userMemory.map, u)
  THEN <<MapGet(w.userMemory.map, u), w.contexts[MapGet(w.userMemory.map, u).value]>>
  ELSE <<>>

\* the handler awaited by task i of world w throws, or the msg.reply(reply)
\* after it rejects
FailIn(w, i) ==
  Settle([w EXCEPT !.tasks[i].pc = "failed", !.tasks[i].ctx = 0], i, FALSE, now)

\* ------------------------------------------------------------------------
\* C31: cooldown and session bookkeeping are written only after a reply was
\* sent: if the handler fails or msg.reply rejects, the cooldown timestamp
\* of the user is left unchanged and the stored session memory of the user
\* is unchanged.
\* ------------------------------------------------------------------------
C31_NoBookkeepingOnFailure ==
  \A msg \in Messages :
    (Accepted(msg) /\ msg.from \notin DOMAIN inflightRequests) =>
      LET started == Dispatch(World, msg, now)
          i == Len(started.tasks)
      IN started.tasks[i].pc = "handler" =>
           /\ CooldownIn(FailIn(started, i), msg.from) = CooldownIn(World, msg.from)
           /\ SessionIn(FailIn(started, i), msg.from) = SessionIn(World, msg.from)

\* ---------------------------------------------------------------------
\* Redelivery of one message id while other traffic passes through the
\* shared deduplicator (index.js:396-410, dedupe.js:45-84).
\* The event followed is one message of user u1 and its redeliveries; the
\* messages of all other users are followed only as far as they touch the
\* state shared with u1, which is the deduplicator.  maxEntries is scaled
\* from 10000 to 10, the smallest capacity at which evictOldest removes an
\* entry.

RedeliveryConfig == <<DEDUPE_TTL, 10>>

\* msg.id._serialized of the message followed
RedeliveredId == 1
Redelivered == [from |-> "u1", fromMe |-> FALSE, id |-> RedeliveredId]

InitRedelivery ==
  /\ now = StartTime
  /\ deduplicator =
       NewMessageDeduplicator(RedeliveryConfig[1], RedeliveryConfig[2], StartTime)
  /\ marks = [id \in MessageIds |-> 0]
  /\ evicted = {}
  /\ store = NewTTLMap(USER_MEMORY_TTL, StartTime)
  /\ written = [k \in Keys |-> NoWrite]
  /\ IdlePipeline

\* the next message id of another user: ids are opaque, each new one is the
\* lowest id not used so far
OtherIds ==
  {id \in MessageIds : /\ id > RedeliveredId
                       /\ marks[id] = 0
                       /\ \A j \in (RedeliveredId + 1)..(id - 1) : marks[j] # 0}

\* handleMessage of an accepted message of another user
OtherTraffic == \E id \in OtherIds : DoCheckAndMark(id)

NextRedelivery ==
  \/ HandleMessage(Redelivered)
  \/ OtherTraffic
  \/ \E i \in 1..Len(tasks) : CooldownOver(i)
  \/ \E i \in 1..Len(tasks), outcome \in {"reply", "empty", "throw"} :
        HandlerReturns(i, outcome)
  \/ \E i \in 1..Len(tasks), sent \in BOOLEAN : ReplySettles(i, sent)
  \/ \E h \in userCooldowns.pending : CooldownTimerFire(h)
  \/ TickPipeline

SpecRedelivery == InitRedelivery /\ [][NextRedelivery]_vars

\* the time at which the deduplicator holds the id until (0: not held)
MarkedUntil(d, id) ==
  IF MapHas(d.seen.map, id) THEN MapGet(d.seen.map, id).expiresAt ELSE 0

\* C32 as stated: once the message has been accepted, whatever became of its
\* handler, every redelivery of its id inside the dedup TTL is dropped, so
\* the id is handled at most once.
C32_Original ==
  (Len(tasks) >= 1 /\ now < StartTime + DEDUPE_TTL) =>
     /\ ~Accepted(Redelivered)
     /\ Len(tasks) = 1

\* C32: the marker is written when the message is accepted and no outcome of
\* the handler (return, throw, rejected reply, skip) removes it: as long as
\* capacity eviction has not removed the id, a redelivery inside the TTL is
\* dropped as a duplicate and the id has been handled exactly once.
C32_MarkerNotRolledBack ==
  (Len(tasks) >= 1 /\ RedeliveredId \notin evicted) =>
     /\ MarkedUntil(deduplicator, RedeliveredId) - DEDUPE_TTL \in StartTime..now
     /\ now < MarkedUntil(deduplicator, RedeliveredId)
     /\ ~Accepted(Redelivered)
     /\ Len(tasks) = 1

C32_Witness ==
  /\ Len(tasks) = 1
  /\ tasks[1].pc = "failed"
  /\ RedeliveredId \notin evicted
  /\ marks[RedeliveredId + 1] # 0
  /\ ~Accepted(Redelivered)

\* ---------------------------------------------------------------------
\* Position of a key that is set again (ttlMap.js:22-41, dedupe.js:45-84)

\* the keys of m other than k, in their order
OtherKeys(m, k) == KeySeq(MapRemove(m, k))

\* C33: set() of a key that is physically present (stale or not) stores the
\* new value and the new deadline and leaves the order of the keys as it
\* was; delete() followed by set() puts the key last; hence markSeen of an
\* id that is present does not change which ids the next oldest-first
\* eviction removes, the id itself included.
C33_ResetKeepsPosition ==
  \A id \in EvictIds :
    LET seen == deduplicator.seen
        ttl == deduplicator.ttl
    IN MapHas(seen.map, id) =>
         /\ \A value \in BOOLEAN, t \in {ttl, 2 * ttl} :
              LET again == TTLSet(seen, id, value, t, now)
                  moved == TTLSet(TTLDelete(seen, id), id, value, t, now)
              IN /\ KeySeq(again.map) = KeySeq(seen.map)
                 /\ MapGet(again.map, id).value = value
                 /\ MapGet(again.map, id).expiresAt = now + t
                 /\ KeySeq(moved.map) = OtherKeys(seen.map, id) \o <<id>>
                 /\ MapGet(moved.map, id) = MapGet(again.map, id)
         /\ TTLSize(seen) < deduplicator.maxEntries =>
              /\ KeySeq(MarkSeen(deduplicator, id, now).seen.map) = KeySeq(seen.map)
              /\ MarkedUntil(MarkSeen(deduplicator, id, now), id) = now + ttl
              /\ EvictedBy(MarkSeen(deduplicator, id, now)) = EvictedBy(deduplicator)

\* the oldest entry has been marked again after a newer one was added: it
\* has the later deadline, is still first and is what the next eviction
\* removes
C33_Witness ==
  /\ Len(deduplicator.seen.map) >= 2
  /\ deduplicator.seen.map[1].expiresAt > deduplicator.seen.map[2].expiresAt
  /\ marks[deduplicator.seen.map[1].key] = deduplicator.seen.map[1].expiresAt - deduplicator.ttl
  /\ deduplicator.seen.map[1].key \in EvictedBy(deduplicator)

\* ---------------------------------------------------------------------
\* Ignored events (index.js:379-410)

\* C34: an event that handleMessage ignores (a group message, a status
\* broadcast, a message from self) changes nothing: the dedup store, the
\* serializer mapping, the cooldown store, the session memory and the list
\* of handlers started all stay as they were, whatever the message id.
C34_IgnoredChangesNothing ==
  \A msg \in Messages :
    Ignored(msg) => ~ENABLED (HandleMessage(msg) /\ vars' # vars)

\* an ignored event with a message id not seen before arrives while a user
\* has a handler in flight, a session and a cooldown entry
C34_Witness ==
  \E msg \in Messages :
    /\ Ignored(msg)
    /\ msg.id # NoId
    /\ ~CheckAndMark(deduplicator, msg.id, now).value
    /\ ENABLED HandleMessage(msg)
    /\ "u1" \in DOMAIN inflightRequests
    /\ MapHas(userMemory.map, "u1")
    /\ MapHas(userCooldowns.map, "u1")

\* ---------------------------------------------------------------------
\* Reconnection (index.js:335-339, 351-373, 780-802, 825-847)
\* The timer table decides when a reconnect timer fires; the delay it was
\* set with is kept with it.

\* client.on('disconnected'): scheduleReconnect()
Disconnected ==
  /\ Alive
  /\ client # "null"
  /\ mainPc \in {"initializing", "done"}
  /\ reconnectAttempts < MaxReconnects
  /\ reconnecting < MaxReconnecting
  /\ InstallReconnect(ScheduleReconnect(Reconnect))
  /\ UNCHANGED <<now, storeVars, dedupeVars, pipelineVars, aiVars, mainPc, client,
                 reconnecting, shutdowns, destroyCalls, exitCode>>

\* a reconnect timer fires: the callback up to `await client.initialize()`
ReconnectTimerFire(i) ==
  /\ Alive
  /\ reconnectTimeout' = "null"
  /\ reconnectTimers' = SubSeq(reconnectTimers, 1, i - 1)
                          \o SubSeq(reconnectTimers, i + 1, Len(reconnectTimers))
  /\ reconnecting' = reconnecting + 1
  /\ UNCHANGED <<now, storeVars, dedupeVars, pipelineVars, aiVars, mainPc, client,
                 reconnectAttempts, reconnectDelays, shutdowns, destroyCalls, exitCode>>

\* the rest of the callback: `reconnectAttempts = 0` when initialize()
\* resolved, scheduleReconnect() when it rejected
ReconnectSettled(r, ok) ==
  IF ok THEN [r EXCEPT !.attempts = 0, !.delays = <<>>] ELSE ScheduleReconnect(r)

ReconnectSettles(ok) ==
  /\ Alive
  /\ reconnecting > 0
  /\ ok \/ reconnectAttempts < MaxReconnects
  /\ reconnecting' = reconnecting - 1
  /\ InstallReconnect(ReconnectSettled(Reconnect, ok))
  /\ UNCHANGED <<now, storeVars, dedupeVars, pipelineVars, aiVars, mainPc, client,
                 shutdowns, destroyCalls, exitCode>>

NextReconnect ==
  \/ \E ok \in BOOLEAN : MainStarts(ok)
  \/ \E ok \in BOOLEAN : InitializeSettles(ok)
  \/ Disconnected
  \/ \E i \in 1..Len(reconnectTimers) : ReconnectTimerFire(i)
  \/ \E ok \in BOOLEAN : ReconnectSettles(ok)
  \/ \E sig \in {"SIGTERM", "SIGINT"} : Signal(sig)
  \/ \E ok \in BOOLEAN : ClientDestroySettles(ok)

SpecReconnect == InitShutdown /\ [][NextReconnect]_vars

\* shutdown() has not been called
NoShutdown == Alive /\ shutdowns = 0 /\ reconnectTimeout # "cleared"

\* C35: at most one reconnect timer is pending, and reconnectTimeout holds
\* its handle exactly while it is pending; as long as no shutdown has been
\* requested, a scheduleReconnect() made while a timer is pending (by a
\* disconnected event or by a failed attempt) changes nothing, and after a
\* failed attempt, of main() or of a reconnect callback, a timer is pending.
C35_OneReconnectTimer ==
  /\ Len(reconnectTimers) <= 1
  /\ NoShutdown =>
       /\ reconnectTimeout = "armed" <=> Len(reconnectTimers) = 1
       /\ reconnectTimeout = "null" <=> Len(reconnectTimers) = 0
       /\ Len(reconnectTimers) = 1 => ScheduleReconnect(Reconnect) = Reconnect
       /\ (reconnecting > 0 \/ mainPc = "initializing") =>
            Len(ReconnectSettled(Reconnect, FALSE).timers) = 1

\* a disconnected event has armed a timer while a reconnect attempt is in
\* flight; the attempt is about to fail
C35_Witness ==
  /\ NoShutdown
  /\ reconnecting > 0
  /\ Len(reconnectTimers) = 1
  /\ reconnectAttempts >= 2

\* the largest delay scheduleReconnect may use (index.js:358)
MaxReconnectDelay == 30000

\* C36: the n-th attempt scheduled since the counter was last 0 has the
\* delay min(30000, 1000 * 2^n); the delays never exceed 30000 and never
\* decrease from one scheduling to the next; the counter is the number of
\* attempts scheduled since it was last 0, and a reconnect attempt that
\* succeeds sets it to 0.
C36_ReconnectDelay ==
  /\ Len(reconnectDelays) = reconnectAttempts
  /\ \A n \in 1..Len(reconnectDelays) :
       /\ reconnectDelays[n] <= MaxReconnectDelay
       /\ reconnectDelays[n] <= 1000 * 2^n
       /\ reconnectDelays[n] = MaxReconnectDelay \/ reconnectDelays[n] = 1000 * 2^n
       /\ n > 1 => reconnectDelays[n - 1] <= reconnectDelays[n]
  /\ \A i \in 1..Len(reconnectTimers) :
       /\ reconnectTimers[i] <= MaxReconnectDelay
       /\ reconnectAttempts > 0 => reconnectTimers[i] = reconnectDelays[reconnectAttempts]
  /\ reconnecting > 0 => ReconnectSettled(Reconnect, TRUE).attempts = 0

\* six attempts were scheduled in a row: 2000, 4000, 8000, 16000, then the
\* cap twice
C36_Witness ==
  /\ reconnectDelays = <<2000, 4000, 8000, 16000, 30000, 30000>>
  /\ reconnectAttempts = 6
  /\ reconnectTimers = <<30000>>

\* ---------------------------------------------------------------------
\* Timers and entries of a TTLMap (ttlMap.js:7-41, 81-87, 112-130)

\* the keys that have a pending per-entry timer
TimerKeys(s) == {h.key : h \in s.pending}

\* C37: in every reachable state of a TTLMap the keys with a pending
\* per-entry timer are the keys physically present in the map, each of them
\* has one pending timer, the one this.timers holds for it, and that timer
\* is due at the entry's expiresAt; set, update, delete, clear, destroy,
\* the sweep, stale reads and timer firings all preserve this.
C37_TimersMatchEntries ==
  /\ TimerKeys(store) = MapKeys(store.map)
  /\ DOMAIN store.timers = MapKeys(store.map)
  /\ \A g, h \in store.pending : g.key = h.key => g = h
  /\ \A h \in store.pending :
       /\ h.due = MapGet(store.map, h.key).expiresAt
       /\ h.due = store.timers[h.key]
  /\ Len(store.map) = Cardinality(MapKeys(store.map))

\* one key has been set again and holds the timer of its second set only,
\* while the other key's stale entry was removed after its deadline
C37_Witness ==
  \E k, j \in Keys :
    /\ k # j
    /\ written[k].set /\ written[k].over
    /\ store.pending = {Handle(k, written[k].at + written[k].ttl)}
    /\ written[j].set
    /\ now > written[j].at + written[j].ttl
    /\ ~MapHas(store.map, j)


====
